---------------------------- MODULE Spec2Model ----------------------------
(***************************************************************************)
(* Request admission core of the ML service (src/ml-service/app):          *)
(* the sliding-window rate limiter, the concurrency gate and the auth      *)
(* gate, as the two HTTP middlewares registered in app/main.py.            *)
(*                                                                         *)
(* Time is counted in ticks of 1/TicksPerSecond second, so that the        *)
(* float readings of time.time() and the ceil()/int() conversions of the   *)
(* limiter are not the identity.  Text values (paths, header values,       *)
(* identities, bucket keys) are TLA+ strings.                              *)
(***************************************************************************)
EXTENDS Integers, Sequences, FiniteSets, Bags, TLC

VARIABLES settings, now, buckets, last, sem_value, req, completed, job, result

vars == <<settings, now, buckets, last, sem_value, req, completed, job, result>>

(***************************************************************************)
(* Bounds of the model.                                                    *)
(***************************************************************************)
TicksPerSecond == 2
MaxWindows == 1
MaxOffset == 1
MaxGlobalLimit == 3
MaxClassLimit == 2
MaxConcurrentInfer == 1
NumRequests == 2
MoneyScale == 2
MaxScore == 3
MaxRoles == 3

(***************************************************************************)
(* Program constants.                                                      *)
(***************************************************************************)
WINDOW_SECONDS == 3600
HEAVY_ENDPOINTS == {"predict", "skill_gap"}

WindowTicks == WINDOW_SECONDS * TicksPerSecond

\* The readings time.time() can return, in ticks: a few instants at the
\* start of each window, so that differences below, equal to and above the
\* window all occur.  The clock never runs backwards.
TimePoints ==
    { (k * WindowTicks) + j : k \in 0..MaxWindows, j \in 0..MaxOffset }

EndpointClasses == {"predict", "skill_gap", "metadata", "lookup"}
Scopes == {"global"} \cup EndpointClasses

Max(a, b) == IF a >= b THEN a ELSE b

\* math.ceil of a duration given in ticks, in whole seconds.
CeilSeconds(ticks) == -((-ticks) \div TicksPerSecond)

\* int() of a non-negative instant given in ticks, in whole seconds.
IntSeconds(ticks) == ticks \div TicksPerSecond

(***************************************************************************)
(* SlidingWindowRateLimiter                                                *)
(***************************************************************************)

\* self.buckets is a defaultdict(deque): reading a missing key creates it
\* with an empty deque.
Touch(bk, key) ==
    IF key \in DOMAIN bk THEN bk
    ELSE [k \in DOMAIN bk \cup {key} |-> IF k = key THEN <<>> ELSE bk[k]]

Bucket(bk, key) == IF key \in DOMAIN bk THEN bk[key] ELSE <<>>

BucketKey_shared(client_ip, scope) == scope

\* f"{client_ip}:global", f"{client_ip}:{endpoint_class}" (lines 48-49)
BucketKey(client_ip, scope) == client_ip \o ":" \o scope

Expired_lt(ts, t) == ts < t - WindowTicks

\* bucket[0] <= boundary, boundary = now - WINDOW_SECONDS
Expired(ts, t) == ts <= t - WindowTicks

RECURSIVE Prune(_, _)
Prune(bucket, t) ==
    IF bucket # <<>> /\ Expired(Head(bucket), t)
    THEN Prune(Tail(bucket), t)
    ELSE bucket

AtCapacity_gt(bucket, limit) == Len(bucket) > limit

\* len(bucket) >= limit
AtCapacity(bucket, limit) == Len(bucket) >= limit

RetryAfter_int(oldest, t) == IntSeconds((oldest + WindowTicks) - t)

\* max(1, math.ceil((oldest + WINDOW_SECONDS) - now))
RetryAfter(oldest, t) == Max(1, CeilSeconds((oldest + WindowTicks) - t))

Rejected(scope, limit, oldest, t) ==
    [allowed |-> FALSE,
     scope |-> scope,
     limit |-> limit,
     remaining |-> 0,
     retry_after_seconds |-> RetryAfter(oldest, t),
     reset_at_seconds |->
         IntSeconds(t + (RetryAfter(oldest, t) * TicksPerSecond))]

Admitted(endpoint_bucket, endpoint_limit, t) ==
    [allowed |-> TRUE,
     scope |-> "route",
     limit |-> endpoint_limit,
     remaining |-> Max(0, endpoint_limit - Len(endpoint_bucket)),
     retry_after_seconds |-> 0,
     reset_at_seconds |->
         IF endpoint_bucket # <<>>
         THEN IntSeconds(Head(endpoint_bucket) + WindowTicks)
         ELSE IntSeconds(t + WindowTicks)]

NoResult ==
    [allowed |-> FALSE, scope |-> "none", limit |-> 0, remaining |-> 0,
     retry_after_seconds |-> 0, reset_at_seconds |-> 0]

\* The two buckets after both _prune calls (lines 52-56).
PrunedBoth(bk, global_key, endpoint_key, t) ==
    LET b0 == Touch(Touch(bk, global_key), endpoint_key)
        b1 == [b0 EXCEPT ![global_key] = Prune(b0[global_key], t)]
    IN  [b1 EXCEPT ![endpoint_key] = Prune(b1[endpoint_key], t)]

RecordBoth_classOnly(bk, global_key, endpoint_key, t) ==
    [bk EXCEPT ![endpoint_key] = Append(bk[endpoint_key], t)]

RecordGlobalOnly(bk, global_key, endpoint_key, t) ==
    [bk EXCEPT ![global_key] = Append(bk[global_key], t)]

\* global_bucket.append(now); endpoint_bucket.append(now) (lines 82-83).
RecordBoth(bk, global_key, endpoint_key, t) ==
    LET b1 == [bk EXCEPT ![global_key] = Append(bk[global_key], t)]
    IN  [b1 EXCEPT ![endpoint_key] = Append(b1[endpoint_key], t)]

check_and_consume_routeFirst(bk, client_ip, endpoint_class, endpoint_limit, global_limit, t) ==
    LET global_key == BucketKey(client_ip, "global")
        endpoint_key == BucketKey(client_ip, endpoint_class)
        pruned == PrunedBoth(bk, global_key, endpoint_key, t)
        global_bucket == pruned[global_key]
        endpoint_bucket == pruned[endpoint_key]
    IN  IF AtCapacity(endpoint_bucket, endpoint_limit)
        THEN IF endpoint_bucket = <<>>
             THEN [raised |-> TRUE, result |-> NoResult, buckets |-> pruned]
             ELSE [raised |-> FALSE,
                   result |-> Rejected("route", endpoint_limit,
                                       Head(endpoint_bucket), t),
                   buckets |-> pruned]
        ELSE IF AtCapacity(global_bucket, global_limit)
        THEN IF global_bucket = <<>>
             THEN [raised |-> TRUE, result |-> NoResult, buckets |-> pruned]
             ELSE [raised |-> FALSE,
                   result |-> Rejected("global", global_limit,
                                       Head(global_bucket), t),
                   buckets |-> pruned]
        ELSE LET recorded == RecordBoth(pruned, global_key, endpoint_key, t)
             IN  [raised |-> FALSE,
                  result |-> Admitted(recorded[endpoint_key], endpoint_limit, t),
                  buckets |-> recorded]

\* check_and_consume, one uninterrupted run: the body of `async with
\* self.lock` holds no await, so the lock is free whenever a caller reaches
\* it and nothing runs between time.time() and the return.
\* raised: bucket[0] of an empty deque (IndexError), which happens when a
\* limit is <= 0 and the bucket is empty.
check_and_consume(bk, client_ip, endpoint_class, endpoint_limit, global_limit, t) ==
    LET global_key == BucketKey(client_ip, "global")
        endpoint_key == BucketKey(client_ip, endpoint_class)
        pruned == PrunedBoth(bk, global_key, endpoint_key, t)
        global_bucket == pruned[global_key]
        endpoint_bucket == pruned[endpoint_key]
    IN  IF AtCapacity(global_bucket, global_limit)
        THEN IF global_bucket = <<>>
             THEN [raised |-> TRUE, result |-> NoResult, buckets |-> pruned]
             ELSE [raised |-> FALSE,
                   result |-> Rejected("global", global_limit,
                                       Head(global_bucket), t),
                   buckets |-> pruned]
        ELSE IF AtCapacity(endpoint_bucket, endpoint_limit)
        THEN IF endpoint_bucket = <<>>
             THEN [raised |-> TRUE, result |-> NoResult, buckets |-> pruned]
             ELSE [raised |-> FALSE,
                   result |-> Rejected("route", endpoint_limit,
                                       Head(endpoint_bucket), t),
                   buckets |-> pruned]
        ELSE LET recorded == RecordBoth(pruned, global_key, endpoint_key, t)
             IN  [raised |-> FALSE,
                  result |-> Admitted(recorded[endpoint_key], endpoint_limit, t),
                  buckets |-> recorded]

endpoint_limit_for(s, endpoint_class) ==
    IF endpoint_class = "predict" THEN s.ml_limit_predict_per_hour
    ELSE IF endpoint_class = "skill_gap" THEN s.ml_limit_skill_gap_per_hour
    ELSE IF endpoint_class = "metadata" THEN s.ml_limit_metadata_per_hour
    ELSE s.ml_limit_lookup_per_hour

LimitOf(s, scope) ==
    IF scope = "global" THEN s.ml_limit_global_per_hour
    ELSE endpoint_limit_for(s, scope)

\* What the specification SpecRetry keeps of the call made before the last
\* one: who made it, when, and what it was told.
NoPrevious ==
    [called |-> FALSE, client_ip |-> "", endpoint_class |-> "", at |-> 0,
     raised |-> FALSE, allowed |-> FALSE, scope |-> "none",
     retry_after_seconds |-> 0]

Previous(c) ==
    [called |-> c.called, client_ip |-> c.client_ip,
     endpoint_class |-> c.endpoint_class, at |-> c.at, raised |-> c.raised,
     allowed |-> c.result.allowed, scope |-> c.result.scope,
     retry_after_seconds |-> c.result.retry_after_seconds]

\* The call last made to check_and_consume (n: parity of the call count).
NoCall ==
    [n |-> 0, called |-> FALSE, client_ip |-> "", endpoint_class |-> "",
     at |-> 0, raised |-> FALSE, result |-> NoResult, previous |-> NoPrevious]

CallRecord(client_ip, endpoint_class, t, out) ==
    [n |-> 1 - last.n, called |-> TRUE, client_ip |-> client_ip,
     endpoint_class |-> endpoint_class, at |-> t, raised |-> out.raised,
     result |-> out.result, previous |-> NoPrevious]

(***************************************************************************)
(* Text helpers (Python str methods on the values the middlewares read)    *)
(***************************************************************************)
RECURSIVE LStrip(_)
LStrip(s) ==
    IF Len(s) > 0 /\ SubSeq(s, 1, 1) = " " THEN LStrip(SubSeq(s, 2, Len(s))) ELSE s

RECURSIVE RStrip(_)
RStrip(s) ==
    IF Len(s) > 0 /\ SubSeq(s, Len(s), Len(s)) = " "
    THEN RStrip(SubSeq(s, 1, Len(s) - 1))
    ELSE s

\* str.strip()
Strip(s) == RStrip(LStrip(s))

\* str.startswith(prefix)
StartsWith(s, prefix) ==
    Len(s) >= Len(prefix) /\ SubSeq(s, 1, Len(prefix)) = prefix

\* s.split(",")[0]
RECURSIVE FirstField(_)
FirstField(s) ==
    IF Len(s) = 0 \/ SubSeq(s, 1, 1) = "," THEN ""
    ELSE SubSeq(s, 1, 1) \o FirstField(SubSeq(s, 2, Len(s)))

\* str.upper() on the request methods of the model.
Upper(method) ==
    IF method = "post" THEN "POST" ELSE IF method = "get" THEN "GET" ELSE method

\* request.headers.get(name, "")
HeaderGet(request, name) ==
    IF name \in DOMAIN request.headers THEN request.headers[name] ELSE ""

(***************************************************************************)
(* app/middleware/common.py                                                *)
(***************************************************************************)
get_client_ip(request) ==
    LET forwarded_for == Strip(HeaderGet(request, "x-forwarded-for"))
        first == Strip(FirstField(forwarded_for))
        x_real_ip == Strip(HeaderGet(request, "x-real-ip"))
    IN  IF forwarded_for # "" /\ first # "" THEN first
        ELSE IF x_real_ip # "" THEN x_real_ip
        ELSE IF request.client_host # "" THEN request.client_host
        ELSE "unknown"

(***************************************************************************)
(* app/middleware/rate_limit.py and auth.py: the two middlewares           *)
(***************************************************************************)
classify_endpoint(method, path) ==
    IF method = "POST" /\ path = "/api/v1/salary/predict" THEN "predict"
    ELSE IF method = "POST" /\ path = "/api/v1/skill-gap/analyze" THEN "skill_gap"
    ELSE IF method = "GET" /\ path = "/api/v1/salary/metadata" THEN "metadata"
    ELSE "lookup"

Bypassed_healthGated(path) == ~StartsWith(path, "/api/v1")

\* `not path.startswith("/api/v1") or path == "/api/v1/health"`: the test
\* with which both middlewares let a request through untouched.
Bypassed(path) == ~StartsWith(path, "/api/v1") \/ path = "/api/v1/health"

PoolSize_extra(s) == Max(1, s.ml_max_concurrent_infer) + 1

\* infer_semaphore = asyncio.Semaphore(max(1, settings.ml_max_concurrent_infer))
PoolSize(s) == Max(1, s.ml_max_concurrent_infer)

NoHeaders == << >>

SetHeader(headers, name, value) ==
    [h \in DOMAIN headers \cup {name} |-> IF h = name THEN value ELSE headers[h]]

JSONResponse(status, error) ==
    [kind |-> "response", status |-> status, error |-> error, headers |-> NoHeaders]

\* What call_next hands back when the inner application raised.
Raised == [kind |-> "exception", status |-> 500, error |-> "exception",
           headers |-> NoHeaders]

NoResponse == [kind |-> "none", status |-> 0, error |-> "", headers |-> NoHeaders]

rate_limited_response(retry_after_seconds, limit, remaining, reset_at_seconds) ==
    [kind |-> "response", status |-> 429, error |-> "rate_limited",
     headers |-> [h \in {"Retry-After", "X-RateLimit-Limit",
                         "X-RateLimit-Remaining", "X-RateLimit-Reset"} |->
                    IF h = "Retry-After" THEN retry_after_seconds
                    ELSE IF h = "X-RateLimit-Limit" THEN limit
                    ELSE IF h = "X-RateLimit-Remaining" THEN remaining
                    ELSE reset_at_seconds]]

\* _log_rate_event / _log_auth_event: one printed line.
LogEvent(component, request, status, blocked, reason) ==
    [component |-> component, path |-> request.path, status |-> status,
     blocked |-> blocked, reason |-> reason]

NoRequest == [method |-> "", path |-> "", headers |-> NoHeaders, client_host |-> ""]

\* A request the rate-limit middleware has just been called with.  req is
\* the bag of the requests in flight: pc says where each one is suspended.
NewSlot ==
    [pc |-> "enter", request |-> NoRequest, gated |-> FALSE,
     endpoint_class |-> "", client_ip |-> "", rate_result |-> NoResult,
     inner |-> NoResponse, log |-> <<>>,
     recorded |-> FALSE, acquired |-> FALSE, released |-> FALSE,
     handler_invoked |-> FALSE]

\* The request the step just taken has answered, if it answered one: what
\* the client receives, what was logged for the request and what the
\* request did on its way.
NoneCompleted ==
    [answered |-> FALSE, request |-> NoRequest, gated |-> FALSE, endpoint_class |-> "",
     client_ip |-> "", response |-> NoResponse, log |-> <<>>,
     recorded |-> FALSE, acquired |-> FALSE, released |-> FALSE,
     handler_invoked |-> FALSE]

Answer(slot, response, log) ==
    [answered |-> TRUE, request |-> slot.request, gated |-> slot.gated,
     endpoint_class |-> slot.endpoint_class, client_ip |-> slot.client_ip,
     response |-> response, log |-> log,
     recorded |-> slot.recorded, acquired |-> slot.acquired,
     released |-> slot.released, handler_invoked |-> slot.handler_invoked]

\* The rate_result of the `else` branch (lines 235-242): limiter disabled.
UnlimitedResult(s, endpoint_class, t) ==
    [allowed |-> TRUE, scope |-> "route",
     limit |-> endpoint_limit_for(s, endpoint_class),
     remaining |-> endpoint_limit_for(s, endpoint_class),
     retry_after_seconds |-> 0,
     reset_at_seconds |-> IntSeconds(t) + WINDOW_SECONDS]

SemaphoreLocked_never(value) == FALSE

\* asyncio.Semaphore.locked(), no waiter being queued
SemaphoreLocked(value) == value = 0

\* The inference call at hand (its request and the artifacts it reads) and
\* what it returned: none while the admission core is looked at.
NoJob == [kind |-> "none"]

NoOutput == [kind |-> "none"]

(***************************************************************************)
(* Settings (app/config.py)                                                *)
(***************************************************************************)
\* The callers and endpoint classes of the limiter-only specification.
LimiterIps == {"10.0.0.1"}
LimiterClasses == {"predict", "lookup"}

LimiterSettings ==
    { [ml_service_key |-> "k",
       ml_service_auth_required |-> TRUE,
       ml_rate_limit_enabled |-> TRUE,
       ml_max_concurrent_infer |-> 1,
       ml_disable_heavy_inference |-> FALSE,
       ml_limit_predict_per_hour |-> p,
       ml_limit_skill_gap_per_hour |-> MaxClassLimit,
       ml_limit_metadata_per_hour |-> MaxClassLimit,
       ml_limit_lookup_per_hour |-> MaxClassLimit + 1,
       ml_limit_global_per_hour |-> g] :
      p \in 0..MaxClassLimit, g \in 0..MaxGlobalLimit }

InitLimiter ==
    /\ settings \in LimiterSettings
    /\ now = 0
    /\ buckets = << >>
    /\ last = NoCall
    /\ sem_value = PoolSize(settings)
    /\ req = EmptyBag
    /\ completed = NoneCompleted
    /\ job = NoJob
    /\ result = NoOutput

\* time.time() moves on.
Tick ==
    /\ \E t \in TimePoints : t > now /\ now' = t
    /\ UNCHANGED <<settings, buckets, last, sem_value, req, completed, job, result>>

\* One call of limiter.check_and_consume with the limits of the settings.
LimiterCall ==
    \E client_ip \in LimiterIps, endpoint_class \in LimiterClasses :
        LET out == check_and_consume(buckets, client_ip, endpoint_class,
                                     endpoint_limit_for(settings, endpoint_class),
                                     settings.ml_limit_global_per_hour, now)
        IN  /\ buckets' = out.buckets
            /\ last' = CallRecord(client_ip, endpoint_class, now, out)
            /\ UNCHANGED <<settings, now, sem_value, req, completed, job, result>>

NextLimiter == Tick \/ LimiterCall

SpecLimiter == InitLimiter /\ [][NextLimiter]_vars

(***************************************************************************)
(* The middleware stack.  app.middleware("http") puts each middleware in   *)
(* front of those registered before it (main.py lines 100-101), so a       *)
(* request enters ml_rate_limit_middleware first; its call_next runs       *)
(* ml_service_auth_middleware, whose call_next runs the route handler.     *)
(* A request runs without interruption from one await of call_next to the  *)
(* next; each of the actions below is one such run.                        *)
(***************************************************************************)

RateCheck_dry(s, bk, client_ip, endpoint_class, t) ==
    IF s.ml_rate_limit_enabled
    THEN [check_and_consume(bk, client_ip, endpoint_class,
                            endpoint_limit_for(s, endpoint_class),
                            s.ml_limit_global_per_hour, t) EXCEPT !.buckets = bk]
    ELSE [raised |-> FALSE,
          result |-> UnlimitedResult(s, endpoint_class, t),
          buckets |-> bk]

\* What the limiter step of the middleware yields (lines 209-242).
RateCheck(s, bk, client_ip, endpoint_class, t) ==
    IF s.ml_rate_limit_enabled
    THEN check_and_consume(bk, client_ip, endpoint_class,
                           endpoint_limit_for(s, endpoint_class),
                           s.ml_limit_global_per_hour, t)
    ELSE [raised |-> FALSE,
          result |-> UnlimitedResult(s, endpoint_class, t),
          buckets |-> bk]

Suspend(slot) == req (+) SetToBag({slot})

Replace(slot, next) == (req (-) SetToBag({slot})) (+) SetToBag({next})

Remove(slot) == req (-) SetToBag({slot})

InFlight == BagToSet(req)

\* ml_rate_limit_middleware from its entry to its first await of call_next
\* or to the response it returns without calling it (lines 180-264), for
\* a server that holds at most `capacity` requests at a time.
RateLimitEnter(capacity, request) ==
    LET path == request.path
        endpoint_class == classify_endpoint(Upper(request.method), path)
        client_ip == get_client_ip(request)
        slot0 == [NewSlot EXCEPT !.request = request]
        slot1 == [slot0 EXCEPT !.gated = TRUE,
                               !.endpoint_class = endpoint_class,
                               !.client_ip = client_ip]
        out == RateCheck(settings, buckets, client_ip, endpoint_class, now)
        slot2 == [slot1 EXCEPT !.rate_result = out.result,
                               !.recorded = settings.ml_rate_limit_enabled]
        rate_event(status, reason) ==
            <<LogEvent("ml_service_rate_limit", request, status, TRUE, reason)>>
    IN  /\ BagCardinality(req) < capacity
        /\ IF Bypassed(path)
           THEN /\ req' = Suspend([slot0 EXCEPT !.pc = "auth"])
                /\ completed' = NoneCompleted
                /\ UNCHANGED <<buckets, sem_value>>
           ELSE IF settings.ml_disable_heavy_inference
                   /\ endpoint_class \in HEAVY_ENDPOINTS
           THEN /\ completed' =
                      Answer(slot1, JSONResponse(503, "temporarily_disabled"),
                             rate_event(503, "heavy_inference_disabled"))
                /\ UNCHANGED <<buckets, sem_value, req>>
           ELSE /\ buckets' = out.buckets
                /\ IF out.raised
                   THEN /\ completed' = Answer(slot1, Raised, <<>>)
                        /\ UNCHANGED <<sem_value, req>>
                   ELSE IF ~out.result.allowed
                   THEN /\ completed' =
                              Answer(slot1,
                                     rate_limited_response(
                                         out.result.retry_after_seconds,
                                         out.result.limit,
                                         out.result.remaining,
                                         out.result.reset_at_seconds),
                                     rate_event(429, "rate_limited_" \o out.result.scope))
                        /\ UNCHANGED <<sem_value, req>>
                   ELSE IF endpoint_class \notin HEAVY_ENDPOINTS
                   THEN /\ req' = Suspend([slot2 EXCEPT !.pc = "auth"])
                        /\ completed' = NoneCompleted
                        /\ UNCHANGED sem_value
                   ELSE IF SemaphoreLocked(sem_value)
                   THEN /\ completed' =
                              Answer(slot2,
                                     rate_limited_response(
                                         5, Max(1, settings.ml_max_concurrent_infer),
                                         0, IntSeconds(now) + 5),
                                     rate_event(429, "concurrency_saturated"))
                        /\ UNCHANGED <<sem_value, req>>
                   ELSE \* await infer_semaphore.acquire()
                        IF sem_value > 0
                        THEN /\ sem_value' = sem_value - 1
                             /\ req' = Suspend([slot2 EXCEPT !.pc = "auth",
                                                             !.acquired = TRUE])
                             /\ completed' = NoneCompleted
                        ELSE /\ req' = Suspend([slot2 EXCEPT !.pc = "sem_wait"])
                             /\ completed' = NoneCompleted
                             /\ UNCHANGED sem_value
        /\ UNCHANGED <<settings, now, last, job, result>>

ProvidedKey_raw(request) == HeaderGet(request, "x-ml-service-key")

\* provided_key = request.headers.get("x-ml-service-key", "").strip()
ProvidedKey(request) == Strip(HeaderGet(request, "x-ml-service-key"))

AuthDecision_emptyKeyMatches(s, request) ==
    IF Bypassed(request.path) THEN "pass"
    ELSE IF ~s.ml_service_auth_required THEN "pass"
    ELSE IF ProvidedKey(request) # s.ml_service_key THEN "unauthorized"
    ELSE "pass"

\* The branch ml_service_auth_middleware takes.
AuthDecision(s, request) ==
    IF Bypassed(request.path) THEN "pass"
    ELSE IF ~s.ml_service_auth_required THEN "pass"
    ELSE IF s.ml_service_key = "" THEN "ml_unavailable"
    ELSE IF ProvidedKey(request) # s.ml_service_key THEN "unauthorized"
    ELSE "pass"

\* ml_service_auth_middleware up to its call_next or its own response.
AuthMiddleware(slot) ==
    LET request == slot.request
        decision == AuthDecision(settings, request)
        reject(status, error, reason) ==
            [slot EXCEPT !.pc = "rl_exit",
                         !.inner = JSONResponse(status, error),
                         !.log = Append(@, LogEvent("ml_service_auth", request,
                                                    status, TRUE, reason))]
    IN  /\ slot.pc = "auth"
        /\ req' = Replace(slot,
              IF decision = "ml_unavailable"
              THEN reject(503, "ml_unavailable", "missing_ml_service_key")
              ELSE IF decision = "unauthorized"
              THEN reject(401, "unauthorized", "invalid_ml_service_key")
              ELSE [slot EXCEPT !.pc = "handler"])
        /\ completed' = NoneCompleted
        /\ UNCHANGED <<settings, now, buckets, last, sem_value, job, result>>

\* What the routed application does with a request: a response (a result, or
\* an HTTPException turned into a 404 response) or an exception that escapes.
HandlerOutcomes ==
    { JSONResponse(200, ""), JSONResponse(404, "not_found"), Raised }

Handler(slot) ==
    /\ slot.pc = "handler"
    /\ \E outcome \in HandlerOutcomes :
          req' = Replace(slot, [slot EXCEPT !.pc = "rl_exit",
                                            !.inner = outcome,
                                            !.handler_invoked = TRUE])
    /\ completed' = NoneCompleted
    /\ UNCHANGED <<settings, now, buckets, last, sem_value, job, result>>

HoldsPermit(slot) == slot.gated /\ slot.endpoint_class \in HEAVY_ENDPOINTS

SemaphoreAfterCall_noFinally(value, slot) ==
    IF HoldsPermit(slot) /\ slot.inner.kind = "response" THEN value + 1 ELSE value

\* try: response = await call_next(request)  finally: infer_semaphore.release()
SemaphoreAfterCall(value, slot) ==
    IF HoldsPermit(slot) THEN value + 1 ELSE value

\* ml_rate_limit_middleware when it runs again: after call_next (lines
\* 264-286, or line 182 for a bypassed path), or after a wait in
\* infer_semaphore.acquire().
RateLimitResume(slot) ==
    LET after == [slot EXCEPT !.released = HoldsPermit(slot)]
        inner == slot.inner
        headers == SetHeader(SetHeader(SetHeader(inner.headers,
                       "X-RateLimit-Limit", slot.rate_result.limit),
                       "X-RateLimit-Remaining", slot.rate_result.remaining),
                       "X-RateLimit-Reset", slot.rate_result.reset_at_seconds)
        ok_event == LogEvent("ml_service_rate_limit", slot.request, inner.status,
                             inner.status = 429, "ok")
    IN  /\ slot.pc \in {"rl_exit", "sem_wait"}
        /\ IF slot.pc = "sem_wait"
           THEN /\ sem_value > 0
                /\ sem_value' = sem_value - 1
                /\ req' = Replace(slot, [slot EXCEPT !.pc = "auth",
                                                     !.acquired = TRUE])
                /\ completed' = NoneCompleted
           ELSE /\ req' = Remove(slot)
                /\ IF ~slot.gated
                   THEN /\ completed' = Answer(slot, inner, slot.log)
                        /\ UNCHANGED sem_value
                   ELSE /\ sem_value' = SemaphoreAfterCall(sem_value, slot)
                        /\ completed' =
                              IF inner.kind = "exception"
                              THEN Answer(after, Raised, slot.log)
                              ELSE Answer(after,
                                          [inner EXCEPT !.headers = headers],
                                          Append(slot.log, ok_event))
        /\ UNCHANGED <<settings, now, buckets, last, job, result>>

(***************************************************************************)
(* Specifications                                                          *)
(***************************************************************************)
Header(name, value) == [h \in {name} |-> value]

\* The requests of the specification Spec: one caller, with and without
\* the right credential.
HttpRequest(method, path, key) ==
    [method |-> method, path |-> path,
     headers |-> Header("x-ml-service-key", key), client_host |-> "10.0.0.1"]

PipelineRequests ==
    { HttpRequest("POST", "/api/v1/salary/predict", "k"),
      HttpRequest("POST", "/api/v1/salary/predict", "x"),
      HttpRequest("GET", "/api/v1/clusters/adjacent/data-analyst", "k"),
      HttpRequest("GET", "/api/v1/health", "x"),
      HttpRequest("GET", "/docs", "x") }

AllSettings ==
    { [ml_service_key |-> key,
       ml_service_auth_required |-> auth,
       ml_rate_limit_enabled |-> enabled,
       ml_max_concurrent_infer |-> infer,
       ml_disable_heavy_inference |-> disabled,
       ml_limit_predict_per_hour |-> 1,
       ml_limit_skill_gap_per_hour |-> 1,
       ml_limit_metadata_per_hour |-> 2,
       ml_limit_lookup_per_hour |-> 2,
       ml_limit_global_per_hour |-> 2] :
      key \in {"", "k", " k"}, auth \in BOOLEAN, enabled \in BOOLEAN,
      infer \in 0..MaxConcurrentInfer, disabled \in BOOLEAN }

\* How many options differ from the usual deployment (a secret is set, auth
\* is required, the limiter is on, heavy inference is on).
Changed(s) ==
    (IF s.ml_service_key = "k" THEN 0 ELSE 1)
    + (IF s.ml_service_auth_required THEN 0 ELSE 1)
    + (IF s.ml_rate_limit_enabled THEN 0 ELSE 1)
    + (IF s.ml_disable_heavy_inference THEN 1 ELSE 0)

\* The settings of Spec: the usual deployment for every size of the permit
\* pool, each other option changed on its own, and no secret with auth off.
PipelineSettings ==
    { s \in AllSettings :
        /\ s.ml_service_key \in {"", "k"}
        /\ \/ Changed(s) = 0
           \/ /\ s.ml_max_concurrent_infer = 1
              /\ \/ Changed(s) = 1
                 \/ /\ Changed(s) = 2
                    /\ s.ml_service_key = ""
                    /\ ~s.ml_service_auth_required }

InitWith(choices) ==
    /\ settings \in choices
    /\ now = 0
    /\ buckets = << >>
    /\ last = NoCall
    /\ sem_value = PoolSize(settings)
    /\ req = EmptyBag
    /\ completed = NoneCompleted
    /\ job = NoJob
    /\ result = NoOutput

Init == InitWith(PipelineSettings)

Next ==
    \/ \E request \in PipelineRequests : RateLimitEnter(NumRequests, request)
    \/ \E slot \in InFlight : AuthMiddleware(slot)
    \/ \E slot \in InFlight : Handler(slot)
    \/ \E slot \in InFlight : RateLimitResume(slot)

Spec == Init /\ [][Next]_vars

\* The settings of the specification SpecSaturation: limits that leave room
\* for more heavy requests than the permit pool does.
SaturationSettings ==
    { [s EXCEPT !.ml_limit_predict_per_hour = MaxClassLimit,
                !.ml_limit_global_per_hour = MaxGlobalLimit] :
      s \in { u \in AllSettings :
                 /\ u.ml_service_key = "k"
                 /\ u.ml_service_auth_required
                 /\ ~u.ml_disable_heavy_inference } }

InitSaturation == InitWith(SaturationSettings)

SpecSaturation == InitSaturation /\ [][Next]_vars

\* The readings of time.time() of the specification SpecRetry: instants a
\* whole second apart next to instants half a second apart, so that a
\* request can be re-sent when the oldest timestamp has expired and a
\* later one has not.
RetryTimePoints ==
    { (k * WindowTicks) + j : k \in 0..MaxWindows, j \in 0..(MaxOffset + 1) }

RetrySettings ==
    { s \in LimiterSettings :
        /\ s.ml_limit_predict_per_hour \in {0, MaxClassLimit}
        /\ s.ml_limit_global_per_hour = MaxGlobalLimit }

InitRetry == InitWith(RetrySettings)

TickRetry ==
    /\ \E t \in RetryTimePoints : t > now /\ now' = t
    /\ UNCHANGED <<settings, buckets, last, sem_value, req, completed, job, result>>

\* One call of limiter.check_and_consume, the call before it remembered.
RetryCall ==
    \E client_ip \in LimiterIps, endpoint_class \in LimiterClasses :
        LET out == check_and_consume(buckets, client_ip, endpoint_class,
                                     endpoint_limit_for(settings, endpoint_class),
                                     settings.ml_limit_global_per_hour, now)
        IN  /\ buckets' = out.buckets
            /\ last' = [CallRecord(client_ip, endpoint_class, now, out)
                           EXCEPT !.previous = Previous(last)]
            /\ UNCHANGED <<settings, now, sem_value, req, completed, job, result>>

NextRetry == TickRetry \/ RetryCall

SpecRetry == InitRetry /\ [][NextRetry]_vars

\* The callers of the specification SpecIdentities: what get_client_ip
\* returns is whatever the headers hold, the key of another caller's bucket
\* included.
IdentityIps == {"10.0.0.1", "10.0.0.1:global"}

IdentitySettings ==
    { s \in LimiterSettings :
        /\ s.ml_limit_predict_per_hour = MaxClassLimit
        /\ s.ml_limit_global_per_hour \in {MaxGlobalLimit - 1, MaxGlobalLimit} }

InitIdentities == InitWith(IdentitySettings)

\* One call of limiter.check_and_consume by one of several callers.
IdentityCall ==
    \E client_ip \in IdentityIps :
        LET out == check_and_consume(buckets, client_ip, "predict",
                                     endpoint_limit_for(settings, "predict"),
                                     settings.ml_limit_global_per_hour, now)
        IN  /\ buckets' = out.buckets
            /\ last' = CallRecord(client_ip, "predict", now, out)
            /\ UNCHANGED <<settings, now, sem_value, req, completed, job, result>>

NextIdentities == Tick \/ IdentityCall

SpecIdentities == InitIdentities /\ [][NextIdentities]_vars

\* The requests of the specification SpecAuth: one request at a time, with
\* every kind of credential header.
AuthKeyHeaders ==
    {NoHeaders} \cup
    { Header("x-ml-service-key", v) : v \in {"", "k", " k", "k ", " k ", "x"} }

AuthRequests ==
    { [method |-> "POST", path |-> p, headers |-> k, client_host |-> "10.0.0.1"] :
      p \in {"/api/v1/salary/predict", "/api/v1/clusters", "/api/v1/health", "/docs"},
      k \in AuthKeyHeaders }

AuthSettings == { s \in AllSettings : s.ml_max_concurrent_infer = 1 }

InitAuth == InitWith(AuthSettings)

NextAuth ==
    \/ \E request \in AuthRequests : RateLimitEnter(1, request)
    \/ \E slot \in InFlight : AuthMiddleware(slot)
    \/ \E slot \in InFlight : Handler(slot)
    \/ \E slot \in InFlight : RateLimitResume(slot)

SpecAuth == InitAuth /\ [][NextAuth]_vars


(***************************************************************************)
(* Properties of the rate limiter                                          *)
(***************************************************************************)
IsSuffix(s, t) == \E i \in 0..Len(t) : s = SubSeq(t, i + 1, Len(t))

\* The entries of a bucket that lie within the window that ends at t.
InWindowCount(bucket, t) ==
    Cardinality({ i \in 1..Len(bucket) : bucket[i] > t - WindowTicks })

LimiterCalled == last'.n # last.n

CallGlobalKey(c) == BucketKey(c.client_ip, "global")
CallEndpointKey(c) == BucketKey(c.client_ip, c.endpoint_class)

\* C1: for every identity and every scope (global or an endpoint class),
\* the bucket of that identity and scope never holds more timestamps than
\* the limit configured for the scope, and the limiter holds no other bucket.
C1_BucketWithinLimit ==
    /\ \A client_ip \in LimiterIps, scope \in Scopes :
          Len(Bucket(buckets, BucketKey(client_ip, scope)))
              <= LimitOf(settings, scope)
    /\ DOMAIN buckets \subseteq
          { BucketKey(client_ip, scope) : client_ip \in LimiterIps, scope \in Scopes }

\* A bucket is full and the call just made was refused.
C1_Witness ==
    /\ last.called /\ ~last.raised /\ ~last.result.allowed
    /\ \E scope \in Scopes :
          /\ LimitOf(settings, scope) >= 2
          /\ Len(Bucket(buckets, BucketKey(last.client_ip, scope)))
                = LimitOf(settings, scope)

\* C2: a check that rejects (or fails) appends nothing to any bucket, it
\* only prunes; a check that admits appends the one timestamp `now` to the
\* identity's global bucket and to its endpoint-class bucket in the same
\* step, and leaves every other bucket alone.
C2_RecordBothOrNeither ==
    [][ LimiterCalled =>
          LET c == last'
              gk == CallGlobalKey(c)
              ek == CallEndpointKey(c)
          IN  IF c.raised \/ ~c.result.allowed
              THEN \A k \in DOMAIN buckets' :
                      IsSuffix(buckets'[k], Bucket(buckets, k))
              ELSE /\ \A k \in {gk, ek} :
                        /\ buckets'[k] # <<>>
                        /\ buckets'[k][Len(buckets'[k])] = now
                        /\ IsSuffix(SubSeq(buckets'[k], 1, Len(buckets'[k]) - 1),
                                    Bucket(buckets, k))
                   /\ \A k \in DOMAIN buckets' \ {gk, ek} :
                        k \in DOMAIN buckets /\ buckets'[k] = buckets[k] ]_vars

\* A call was refused although the identity has recorded requests.
C2_Witness ==
    /\ last.called /\ ~last.raised /\ ~last.result.allowed
    /\ last.result.scope = "route"
    /\ Len(Bucket(buckets, CallGlobalKey(last))) >= 2

\* C3: with a class limit L >= 1 and the global limit not reached, when
\* the identity's class bucket holds L admitted calls of the current window
\* the next call to that class is rejected with scope route, remaining 0
\* and retry_after >= 1.
C3_RejectedAfterLimit ==
    [][ LimiterCalled =>
          LET c == last'
              L == endpoint_limit_for(settings, c.endpoint_class)
          IN  ( /\ L >= 1
                /\ InWindowCount(Bucket(buckets, CallEndpointKey(c)), now) = L
                /\ InWindowCount(Bucket(buckets, CallGlobalKey(c)), now)
                      < settings.ml_limit_global_per_hour )
              => /\ ~c.raised
                 /\ ~c.result.allowed
                 /\ c.result.scope = "route"
                 /\ c.result.limit = L
                 /\ c.result.remaining = 0
                 /\ c.result.retry_after_seconds >= 1 ]_vars

\* The call after MaxClassLimit admitted ones was refused half a second
\* before the oldest of them expires.
C3_Witness ==
    /\ last.called /\ ~last.raised /\ ~last.result.allowed
    /\ last.result.scope = "route"
    /\ last.result.limit = MaxClassLimit
    /\ last.result.retry_after_seconds = 1
    /\ Head(Bucket(buckets, CallEndpointKey(last))) + WindowTicks = last.at + 1

C4_NoneExpired ==
    last.called =>
        \A k \in {CallGlobalKey(last), CallEndpointKey(last)} :
            \A i \in 1..Len(Bucket(buckets, k)) :
                Bucket(buckets, k)[i] > last.at - WindowTicks

C4_ComparedAfterPrune ==
    LimiterCalled =>
        LET c == last'
            inGlobal == InWindowCount(Bucket(buckets, CallGlobalKey(c)), now)
            inClass == InWindowCount(Bucket(buckets, CallEndpointKey(c)), now)
            full == \/ inGlobal >= settings.ml_limit_global_per_hour
                    \/ inClass >= endpoint_limit_for(settings, c.endpoint_class)
        IN  (c.raised \/ ~c.result.allowed) <=> full

\* C4: every check prunes both buckets it consults before it compares their
\* sizes with the limits: the decision counts only timestamps newer than
\* now - 3600 s, and when the check returns neither bucket retains a
\* timestamp t <= now - 3600 s.
C4_PrunedBeforeCheck == []C4_NoneExpired /\ [][C4_ComparedAfterPrune]_vars

\* A call was admitted at an instant at which an earlier request of the
\* identity (still in the bucket of another class) had expired.
C4_Witness ==
    /\ last.called /\ last.result.allowed
    /\ \E scope \in EndpointClasses \ {last.endpoint_class} :
          LET other == Bucket(buckets, BucketKey(last.client_ip, scope))
          IN  /\ other # <<>>
              /\ Head(other) = last.at - WindowTicks
              /\ Len(Bucket(buckets, CallGlobalKey(last))) = 1

(***************************************************************************)
(* Properties of the concurrency gate                                      *)
(***************************************************************************)

\* The heavy requests that are inside call_next of the rate-limit
\* middleware: in the auth middleware, in the route handler, or with their
\* response on its way back.
Count(P(_)) ==
    LET some == { slot \in InFlight : P(slot) }
    IN  IF some = {} THEN 0
        ELSE BagCardinality([slot \in some |-> CopiesIn(slot, req)])

InDownstream(slot) ==
    /\ slot.pc \in {"auth", "handler", "rl_exit"}
    /\ slot.gated
    /\ slot.endpoint_class \in HEAVY_ENDPOINTS

HeavyInDownstream == Count(InDownstream)

\* C5 as stated: the heavy requests inside the downstream handler never
\* outnumber the configured ml_max_concurrent_infer.
C5_WithinConfiguredMaximum ==
    HeavyInDownstream <= settings.ml_max_concurrent_infer

\* C5: under every interleaving, the heavy requests inside the downstream
\* handler never outnumber max(1, ml_max_concurrent_infer), the size the
\* permit pool is given.
C5_WithinPool ==
    HeavyInDownstream <= Max(1, settings.ml_max_concurrent_infer)

LastReason(c) == IF c.log = <<>> THEN "" ELSE c.log[Len(c.log)].reason

\* The pool is in full use and a further heavy request was turned away.
C5_Witness ==
    /\ HeavyInDownstream = Max(1, settings.ml_max_concurrent_infer)
    /\ completed.answered
    /\ LastReason(completed) = "concurrency_saturated"

Acquired(slot) == slot.acquired

PermitHolders == Count(Acquired)

\* C6: a request that acquired a permit has released it when its response
\* (or the error of the handler) leaves the middleware, a request that
\* acquired none releases none, and the free permits are the pool less the
\* permits of the requests in flight: all of them when no heavy request is
\* in flight.
C6_PermitReleased ==
    /\ sem_value = PoolSize(settings) - PermitHolders
    /\ completed.answered => (completed.released <=> completed.acquired)
    /\ (\A slot \in InFlight : ~HoldsPermit(slot))
          => sem_value = PoolSize(settings)

\* The handler of a heavy request raised, and every permit is free again.
C6_Witness ==
    /\ completed.answered
    /\ completed.acquired /\ completed.released
    /\ completed.handler_invoked
    /\ completed.response.kind = "exception"
    /\ sem_value = PoolSize(settings)

C7_NoWaiter == \A slot \in InFlight : slot.pc # "sem_wait"

C7_SaturatedAnswer ==
    (completed.answered /\ LastReason(completed) = "concurrency_saturated") =>
        /\ completed.response.status = 429
        /\ completed.response.headers["Retry-After"] = 5
        /\ completed.response.headers["X-RateLimit-Limit"] = PoolSize(settings)
        /\ completed.response.headers["X-RateLimit-Remaining"] = 0
        /\ ~completed.handler_invoked
        /\ ~completed.acquired

C7_NoEntryWithoutPermit ==
    HeavyInDownstream' > HeavyInDownstream
        => sem_value > 0 /\ sem_value' = sem_value - 1

\* C7: the gate fails fast.  A heavy request that finds no permit free does
\* not go on and does not wait: it is answered 429 with Retry-After 5, limit
\* equal to the pool size and remaining 0, and its handler is not invoked;
\* a heavy request that goes on takes its permit in the step that found it
\* free; no request is ever suspended in infer_semaphore.acquire().
C7_FailFast ==
    [](C7_NoWaiter /\ C7_SaturatedAnswer) /\ [][C7_NoEntryWithoutPermit]_vars

\* A heavy request was answered 429 by the concurrency gate.
C7_Witness ==
    /\ completed.answered
    /\ LastReason(completed) = "concurrency_saturated"
    /\ completed.endpoint_class = "predict"
    /\ sem_value = 0

(***************************************************************************)
(* Properties of the auth gate                                             *)
(***************************************************************************)

\* The auth middleware has decided on the request of the slot.
AuthRan(slot) == slot.pc \in {"handler", "rl_exit"}

AuthAnswered(slot, status, error) ==
    /\ slot.pc = "rl_exit"
    /\ slot.inner = JSONResponse(status, error)
    /\ ~slot.handler_invoked

AuthPassed(slot) == slot.pc = "handler" \/ slot.handler_invoked

CredentialOf(slot) == HeaderGet(slot.request, "x-ml-service-key")

\* C8 as stated: with no secret configured, whatever the other options are,
\* the auth gate answers every API request but health with 503
\* ml_unavailable and the handler is not invoked.
C8_NoSecretAlways503 ==
    \A slot \in InFlight :
        ( /\ AuthRan(slot)
          /\ ~Bypassed(slot.request.path)
          /\ settings.ml_service_key = "" )
        => AuthAnswered(slot, 503, "ml_unavailable")

\* C8: with auth required and no secret configured, the auth gate answers
\* every API request but health that reaches it with 503 ml_unavailable,
\* whatever credential the request carries, and the handler is not invoked.
C8_NoSecret503WhenRequired ==
    /\ \A slot \in InFlight :
          ( /\ AuthRan(slot)
            /\ ~Bypassed(slot.request.path)
            /\ settings.ml_service_auth_required
            /\ settings.ml_service_key = "" )
          => AuthAnswered(slot, 503, "ml_unavailable")
    /\ ( /\ completed.answered
         /\ completed.gated
         /\ settings.ml_service_auth_required
         /\ settings.ml_service_key = "" )
       => ~completed.handler_invoked

\* A request that carries a credential is answered 503 by the auth gate.
C8_Witness ==
    \E slot \in InFlight :
        /\ AuthAnswered(slot, 503, "ml_unavailable")
        /\ CredentialOf(slot) = "k"
        /\ settings.ml_service_key = ""

\* C9 as stated: with a secret configured, an API request reaches the
\* handler exactly when its credential header is the very string
\* configured, and is answered 401 otherwise.
C9_ExactMatch ==
    \A slot \in InFlight :
        ( /\ AuthRan(slot)
          /\ ~Bypassed(slot.request.path)
          /\ settings.ml_service_key # "" )
        => IF CredentialOf(slot) = settings.ml_service_key
           THEN AuthPassed(slot)
           ELSE AuthAnswered(slot, 401, "unauthorized")

\* C9: with auth required and a secret configured, the auth gate lets an
\* API request (other than health) through to the handler exactly when its
\* credential header, stripped of leading and trailing whitespace, is the
\* configured secret; every other value, an absent header included, is
\* answered 401 unauthorized and the handler is not invoked.
C9_StrippedMatch ==
    \A slot \in InFlight :
        ( /\ AuthRan(slot)
          /\ ~Bypassed(slot.request.path)
          /\ settings.ml_service_auth_required
          /\ settings.ml_service_key # "" )
        => IF Strip(CredentialOf(slot)) = settings.ml_service_key
           THEN AuthPassed(slot)
           ELSE AuthAnswered(slot, 401, "unauthorized")

\* A credential padded with blanks is let through, and (second conjunct of
\* the disjunction) a request with no credential header is answered 401.
C9_Witness ==
    \E slot \in InFlight :
        /\ settings.ml_service_auth_required
        /\ settings.ml_service_key = "k"
        /\ ~Bypassed(slot.request.path)
        /\ CredentialOf(slot) = " k "
        /\ slot.pc = "rl_exit"
        /\ slot.handler_invoked

\* C10: the gates run in the order auth, limiter, concurrency gate: a
\* request the auth gate rejects (401 or 503) has not been recorded in a
\* rate bucket and has taken no permit.
C10_AuthRejectedUntouched ==
    \A slot \in InFlight :
        ( \/ AuthAnswered(slot, 401, "unauthorized")
          \/ AuthAnswered(slot, 503, "ml_unavailable") )
        => ~slot.recorded /\ ~slot.acquired


(***************************************************************************)
(* Properties of the gate decisions: logging, headers, bypass              *)
(***************************************************************************)

RejectionStatuses == {401, 404, 429, 503}

\* The request just answered was turned away with one of the rejection
\* statuses.
RejectedAnswer(c) ==
    /\ c.answered
    /\ c.response.kind = "response"
    /\ c.response.status \in RejectionStatuses

\* The log lines of the request hold one that names the rejection: it has
\* the status of the response and a reason other than the success code.
RejectionNamed(c) ==
    \E i \in DOMAIN c.log :
        /\ c.log[i].status = c.response.status
        /\ c.log[i].reason # "ok"

\* C11: every rejected request (401, 429, 503, 404) has, when its response
\* is returned, a log event whose reason code identifies the rejection: it
\* is never returned with only the success reason or with no event.
C11_RejectionLogged ==
    RejectedAnswer(completed) => RejectionNamed(completed)

AuthEvents(log) == { i \in DOMAIN log : log[i].component = "ml_service_auth" }

\* C12: the auth gate logs one event for every decision it takes on an API
\* request other than health, the pass-through of a request with a valid
\* credential included.
C12_AuthDecisionLogged ==
    \A slot \in InFlight :
        (AuthRan(slot) /\ slot.gated) => Cardinality(AuthEvents(slot.log)) = 1

RateHeaders == {"X-RateLimit-Limit", "X-RateLimit-Remaining", "X-RateLimit-Reset"}

\* C13: every response returned for a gated path carries the limit,
\* remaining and reset headers, whichever branch produced it, and every 429
\* also carries Retry-After.
C13_RateHeadersOnEveryResponse ==
    (completed.answered /\ completed.gated /\ completed.response.kind = "response")
    => /\ RateHeaders \subseteq DOMAIN completed.response.headers
       /\ completed.response.status = 429
          => "Retry-After" \in DOMAIN completed.response.headers

\* The paths the gates are to leave alone: the health path and every path
\* outside the API.
ExemptPath(path) ==
    \/ path = "/api/v1/health"
    \/ Len(path) < 7
    \/ SubSeq(path, 1, 7) # "/api/v1"

\* The requests a step has moved: those whose number of copies in flight
\* differs before and after.
Moved ==
    { slot \in BagToSet(req) \cup BagToSet(req') :
        CopiesIn(slot, req) # CopiesIn(slot, req') }

C14_ExemptInFlight ==
    \A slot \in InFlight :
        ExemptPath(slot.request.path)
        => /\ slot.pc \in {"auth", "handler", "rl_exit"}
           /\ ~slot.gated /\ ~slot.recorded /\ ~slot.acquired
           /\ slot.log = << >>
           /\ slot.pc = "rl_exit" => slot.handler_invoked

C14_ExemptStep ==
    /\ (Moved # {} /\ \A slot \in Moved : ExemptPath(slot.request.path))
       => /\ buckets' = buckets
          /\ sem_value' = sem_value
          /\ ~completed'.answered \/ ExemptPath(completed'.request.path)
    /\ (completed'.answered /\ ExemptPath(completed'.request.path))
       => /\ completed'.handler_invoked
          /\ completed'.response \in HandlerOutcomes
          /\ completed'.log = << >>
          /\ ~completed'.recorded /\ ~completed'.acquired /\ ~completed'.released
          /\ buckets' = buckets
          /\ sem_value' = sem_value

\* C14: a request to the health path or to a path outside the API bypasses
\* both gates: whatever its credential it is forwarded to the handler and
\* answered with the handler's own response, no rate bucket is created or
\* changed, no permit is taken or released and no gate event is logged, on
\* every step the request takes.
C14_ExemptBypassesGates ==
    [][C14_ExemptStep]_vars /\ []C14_ExemptInFlight

\* A health or non-API request with a wrong credential was answered by the
\* handler while the identity's global limit was used up and every permit
\* was held.
C14_Witness ==
    /\ completed.answered
    /\ ExemptPath(completed.request.path)
    /\ CredentialOf(completed) = "x"
    /\ completed.handler_invoked
    /\ sem_value = 0
    /\ Len(Bucket(buckets, BucketKey("10.0.0.1", "global")))
           >= settings.ml_limit_global_per_hour

(***************************************************************************)
(* Salary pipeline (app/models/salary_inference.py): company scale tier    *)
(***************************************************************************)

\* Optional values of a request: None, or a value.
None == [is_none |-> TRUE, value |-> 0]

NoneStr == [is_none |-> TRUE, value |-> ""]

NoneDict == [is_none |-> TRUE, value |-> [absent |-> TRUE]]

Some(v) == [is_none |-> FALSE, value |-> v]

\* dict.get(key, default)
DictGet(d, key, default) == IF key \in DOMAIN d THEN d[key] ELSE default

\* x in list
InList(x, list) == \E i \in DOMAIN list : list[i] = x

DEFAULT_TIER_ORDER == <<"micro", "small", "mid", "large", "enterprise">>

DEFAULT_SCALE_META ==
    [boundaries |-> <<25, 100, 500, 2000>>,
     tier_order |-> DEFAULT_TIER_ORDER,
     representative_counts |->
         [t \in {"micro", "small", "mid", "large", "enterprise"} |->
            CASE t = "micro" -> 15
              [] t = "small" -> 65
              [] t = "mid" -> 280
              [] t = "large" -> 1200
              [] OTHER -> 3000]]

_resolve_tier_from_count_shifted(value, boundaries) ==
    IF value <= 0 THEN "mid"
    ELSE IF value <= boundaries[2] THEN "micro"
    ELSE IF value <= boundaries[3] THEN "small"
    ELSE IF value <= boundaries[4] THEN "mid"
    ELSE "large"

_resolve_tier_from_count(value, boundaries) ==
    IF value <= 0 THEN "mid"
    ELSE IF value <= boundaries[1] THEN "micro"
    ELSE IF value <= boundaries[2] THEN "small"
    ELSE IF value <= boundaries[3] THEN "mid"
    ELSE IF value <= boundaries[4] THEN "large"
    ELSE "enterprise"

\* float(representative_counts.get(tier, 0) or 0)
RepresentativeCount(representative_counts, tier) ==
    DictGet(representative_counts, tier, 0)

_resolve_company_scale_tier_countFloor(request, company_scale_meta) ==
    LET scale_meta == IF company_scale_meta.is_none THEN DEFAULT_SCALE_META
                      ELSE company_scale_meta.value
        tier_order == DictGet(scale_meta, "tier_order", DEFAULT_TIER_ORDER)
        boundaries == DictGet(scale_meta, "boundaries", DEFAULT_SCALE_META.boundaries)
        representative_counts ==
            DictGet(scale_meta, "representative_counts",
                    DEFAULT_SCALE_META.representative_counts)
        with(tier) == [tier |-> tier,
                       company_posting_count |->
                           RepresentativeCount(representative_counts, tier)]
    IN  IF /\ ~request.company_scale_tier.is_none
           /\ request.company_scale_tier.value # ""
           /\ InList(request.company_scale_tier.value, tier_order)
        THEN with(request.company_scale_tier.value)
        ELSE IF /\ ~request.employee_count.is_none
                /\ request.employee_count.value > boundaries[1]
        THEN with(_resolve_tier_from_count(request.employee_count.value, boundaries))
        ELSE with("mid")

\* The pair (tier, company posting count) of _resolve_company_scale_tier;
\* company_scale_meta is None (not a dict) or a dict.
_resolve_company_scale_tier(request, company_scale_meta) ==
    LET scale_meta == IF company_scale_meta.is_none THEN DEFAULT_SCALE_META
                      ELSE company_scale_meta.value
        tier_order == DictGet(scale_meta, "tier_order", DEFAULT_TIER_ORDER)
        boundaries == DictGet(scale_meta, "boundaries", DEFAULT_SCALE_META.boundaries)
        representative_counts ==
            DictGet(scale_meta, "representative_counts",
                    DEFAULT_SCALE_META.representative_counts)
        with(tier) == [tier |-> tier,
                       company_posting_count |->
                           RepresentativeCount(representative_counts, tier)]
    IN  IF /\ ~request.company_scale_tier.is_none
           /\ request.company_scale_tier.value # ""
           /\ InList(request.company_scale_tier.value, tier_order)
        THEN with(request.company_scale_tier.value)
        ELSE IF ~request.employee_count.is_none /\ request.employee_count.value > 0
        THEN with(_resolve_tier_from_count(request.employee_count.value, boundaries))
        ELSE with("mid")

\* The employee counts of the model: none, below and at zero, and at and
\* just above every boundary of the scale metadata in use.
EmployeeCounts ==
    {-1, 0, 1, 2, 3, 4, 5, 25, 26, 100, 101, 500, 501, 800, 2000, 2001}

ScaleMetas ==
    { NoneDict,
      Some([boundaries |-> <<1, 2, 3, 4>>]),
      Some([boundaries |-> <<2, 4, 100, 800>>,
            tier_order |-> <<"small", "large">>,
            representative_counts |-> [t \in {"small", "large"} |->
                                          IF t = "small" THEN 10 ELSE 0]]) }

ScaleTiers == { NoneStr, Some(""), Some("large"), Some("micro"), Some("giant") }

\* The fields of SalaryPredictionRequest the pipeline reads after the
\* features are built.
SalaryRequest(title, skills, employee_count, company_scale_tier) ==
    [title |-> title, skills |-> skills, employee_count |-> employee_count,
     company_scale_tier |-> company_scale_tier]

TierJobs ==
    { [kind |-> "tier",
       request |-> SalaryRequest("data scientist", << >>, count, tier),
       company_scale_meta |-> meta] :
      count \in {None} \cup { Some(c) : c \in EmployeeCounts },
      tier \in ScaleTiers,
      meta \in ScaleMetas }

\* The admission core at rest, with the settings of app/config.py.
DefaultSettings ==
    [ml_service_key |-> "",
     ml_service_auth_required |-> TRUE,
     ml_rate_limit_enabled |-> TRUE,
     ml_max_concurrent_infer |-> 2,
     ml_disable_heavy_inference |-> FALSE,
     ml_limit_predict_per_hour |-> 40,
     ml_limit_skill_gap_per_hour |-> 20,
     ml_limit_metadata_per_hour |-> 180,
     ml_limit_lookup_per_hour |-> 240,
     ml_limit_global_per_hour |-> 400]

InitInference(jobs) ==
    /\ settings = DefaultSettings
    /\ now = 0
    /\ buckets = << >>
    /\ last = NoCall
    /\ sem_value = PoolSize(settings)
    /\ req = EmptyBag
    /\ completed = NoneCompleted
    /\ job \in jobs
    /\ result = NoOutput

InitTier == InitInference(TierJobs)

\* One call of _resolve_company_scale_tier.
ResolveTier ==
    /\ job.kind = "tier"
    /\ result = NoOutput
    /\ result' = [kind |-> "tier"] @@
                 _resolve_company_scale_tier(job.request, job.company_scale_meta)
    /\ UNCHANGED <<settings, now, buckets, last, sem_value, req, completed, job>>

NextTier == ResolveTier

SpecTier == InitTier /\ [][NextTier]_vars

(***************************************************************************)
(* Properties of the tier resolution                                       *)
(***************************************************************************)

\* The place of a tier in the order micro < small < mid < large < enterprise.
TierRank(tier) ==
    CHOOSE i \in DOMAIN DEFAULT_TIER_ORDER : DEFAULT_TIER_ORDER[i] = tier

StrictlyIncreasing(boundaries) ==
    \A i \in 1..(Len(boundaries) - 1) : boundaries[i] < boundaries[i + 1]

BoundariesOf(meta) ==
    IF meta.is_none THEN DEFAULT_SCALE_META.boundaries
    ELSE DictGet(meta.value, "boundaries", DEFAULT_SCALE_META.boundaries)

\* The request names no tier of its own and carries an employee count, and
\* its tier has been resolved.
ResolvedFromCount ==
    /\ job.kind = "tier"
    /\ result # NoOutput
    /\ job.request.company_scale_tier.is_none
    /\ ~job.request.employee_count.is_none
    /\ StrictlyIncreasing(BoundariesOf(job.company_scale_meta))

\* The tier the same call resolves for another employee count.
TierFor(count) ==
    _resolve_company_scale_tier(
        [job.request EXCEPT !.employee_count = Some(count)],
        job.company_scale_meta).tier

\* C17 as stated: with fixed strictly increasing boundaries and no explicit
\* tier, the resolved tier is monotonic over all integer employee counts.
C17_MonotonicAllCounts ==
    ResolvedFromCount
    => \A b \in EmployeeCounts :
          job.request.employee_count.value <= b
          => TierRank(result.tier) <= TierRank(TierFor(b))

\* C17: with fixed strictly increasing boundaries and no explicit tier, the
\* resolved tier is monotonic over the positive employee counts: for counts
\* 0 < a <= b the tier of b is not lower than the tier of a.
C17_MonotonicPositiveCounts ==
    (ResolvedFromCount /\ job.request.employee_count.value > 0)
    => \A b \in EmployeeCounts :
          job.request.employee_count.value <= b
          => TierRank(result.tier) <= TierRank(TierFor(b))

\* A count above the first boundary was resolved to a tier above micro
\* that a larger count of the model exceeds.
C17_Witness ==
    /\ ResolvedFromCount
    /\ job.request.employee_count.value > 0
    /\ TierRank(result.tier) > 1
    /\ \E b \in EmployeeCounts :
          /\ job.request.employee_count.value < b
          /\ TierRank(result.tier) < TierRank(TierFor(b))

\* The request of the example: employee_count 800, no explicit tier, the
\* default boundaries [25, 100, 500, 2000].
ExampleResolved ==
    /\ job.kind = "tier"
    /\ result # NoOutput
    /\ job.request.company_scale_tier.is_none
    /\ job.request.employee_count = Some(800)
    /\ BoundariesOf(job.company_scale_meta) = <<25, 100, 500, 2000>>

\* C18 as stated: employee_count 800 with no explicit tier resolves to
\* "mid" under the default boundaries.
C18_ExampleIsMid == ExampleResolved => result.tier = "mid"

\* C18: employee_count 800 with no explicit tier resolves to "large" under
\* the default boundaries [25, 100, 500, 2000]: 500 < 800 <= 2000.
C18_ExampleIsLarge == ExampleResolved => result.tier = "large"

C18_Witness == ExampleResolved /\ job.company_scale_meta.is_none

(***************************************************************************)
(* Salary pipeline: premiums, clamps, confidence, response                 *)
(*                                                                         *)
(* A float amount of money is an integer count of units, Unit units to the *)
(* dollar; the predictors answer on a grid of 1/MoneyScale dollar, which   *)
(* leaves room below it for the products with max_adjustment_ratio, a      *)
(* number of twentieths (0.35 is 7), and for the mean of two deltas.  NaN  *)
(* is the float that compares false with everything.                       *)
(***************************************************************************)
Unit == 20 * MoneyScale

Dollars(d) == d * Unit

\* d dollars and f/MoneyScale of a dollar
Money(d, f) == d * Unit + f * 20

NaN == -2000000000

IsNaN(x) == x = NaN

\* a < b on floats
FLess(a, b) == ~IsNaN(a) /\ ~IsNaN(b) /\ a < b

FAdd(a, b) == IF IsNaN(a) \/ IsNaN(b) THEN NaN ELSE a + b

FNeg(a) == IF IsNaN(a) THEN NaN ELSE 0 - a

\* abs(x)
FAbs(a) == IF IsNaN(a) THEN NaN ELSE IF a < 0 THEN 0 - a ELSE a

\* x * max_ratio, the ratio in twentieths
FTimesRatio(a, twentieths) == IF IsNaN(a) THEN NaN ELSE (a * twentieths) \div 20

\* Python min(a, b): b if b < a, else a.  max(a, b): b if b > a, else a.
py_min(a, b) == IF FLess(b, a) THEN b ELSE a

py_max(a, b) == IF FLess(a, b) THEN b ELSE a

\* round() of the fraction n/d (d > 0) to an integer: to the nearest, a
\* tie to the even one.
RoundHalfEven(n, d) ==
    LET q == n \div d
        r == n - q * d
    IN  IF 2 * r < d THEN q
        ELSE IF 2 * r > d THEN q + 1
        ELSE IF q % 2 = 0 THEN q ELSE q + 1

RECURSIVE Power10(_)
Power10(k) == IF k = 0 THEN 1 ELSE 10 * Power10(k - 1)

\* round(n/d, ndigits) for 0 <= n/d, as a count of 10^-ndigits.
RECURSIVE py_round(_, _, _)
py_round(n, d, ndigits) ==
    IF ndigits = 0 THEN RoundHalfEven(n, d)
    ELSE (n \div d) * Power10(ndigits) + py_round(10 * (n % d), d, ndigits - 1)

AsciiLower == "abcdefghijklmnopqrstuvwxyz"

AsciiUpper == "ABCDEFGHIJKLMNOPQRSTUVWXYZ"

\* The character c with the letters of `from` replaced by those of `to`.
MapChar(c, from, to) ==
    IF \E i \in 1..Len(from) : SubSeq(from, i, i) = c
    THEN LET i == CHOOSE i \in 1..Len(from) : SubSeq(from, i, i) = c
         IN  SubSeq(to, i, i)
    ELSE c

RECURSIVE MapChars(_, _, _)
MapChars(s, from, to) ==
    IF Len(s) = 0 THEN ""
    ELSE MapChar(SubSeq(s, 1, 1), from, to) \o MapChars(SubSeq(s, 2, Len(s)), from, to)

\* str.lower(), str.upper()
str_lower(s) == MapChars(s, AsciiUpper, AsciiLower)

str_upper(s) == MapChars(s, AsciiLower, AsciiUpper)

\* [s.upper() for s in skills if s.upper() in valid]; every skill passes
\* when there is no vocabulary to check against.
RECURSIVE UpperKnown(_, _, _)
UpperKnown(skills, checked, valid) ==
    IF skills = << >> THEN << >>
    ELSE (IF ~checked \/ str_upper(Head(skills)) \in valid
          THEN <<str_upper(Head(skills))>>
          ELSE << >>)
         \o UpperKnown(Tail(skills), checked, valid)

_resolve_known_skills(skills, salary_skill_vocab) ==
    IF ~salary_skill_vocab.is_none
    THEN LET skill_abrs == DictGet(salary_skill_vocab.value, "skill_abrs", << >>)
             valid == { str_upper(skill_abrs[i]) : i \in DOMAIN skill_abrs }
         IN  UpperKnown(skills, TRUE, valid)
    ELSE UpperKnown(skills, FALSE, {})

RECURSIVE Sum(_)
Sum(list) == IF list = << >> THEN 0 ELSE Head(list) + Sum(Tail(list))

\* float(np.mean(per_skill_deltas)) if per_skill_deltas else 0.0
MeanOrZero(list) == IF list = << >> THEN 0 ELSE Sum(list) \div Len(list)

\* The deltas of the skills that have one, the role's before the global one.
RECURSIVE PerSkillDeltas(_, _, _)
PerSkillDeltas(selected_skills, role_skill_map, global_skill_deltas) ==
    IF selected_skills = << >> THEN << >>
    ELSE LET feature_key == "skill_" \o Head(selected_skills)
         IN  (IF feature_key \in DOMAIN role_skill_map
              THEN <<role_skill_map[feature_key]>>
              ELSE IF feature_key \in DOMAIN global_skill_deltas
              THEN <<global_skill_deltas[feature_key]>>
              ELSE << >>)
             \o PerSkillDeltas(Tail(selected_skills), role_skill_map,
                               global_skill_deltas)

MaxAllowed_absoluteOnly(max_absolute, prediction_median, max_ratio) == max_absolute

\* max_allowed = min(max_absolute, abs(prediction_median) * max_ratio)
MaxAllowed(max_absolute, prediction_median, max_ratio) ==
    py_min(max_absolute, FTimesRatio(FAbs(prediction_median), max_ratio))

\* SalaryAdjustment entries of the deltas that are at least a dollar
Adjustment(source, delta) ==
    IF FAbs(delta) >= Unit
    THEN <<[source |-> source, delta |-> RoundHalfEven(delta, Unit)]>>
    ELSE << >>

_apply_premiums(role_title, selected_skills, company_tier, prediction_median, prediction_p10, prediction_p90, salary_premiums) ==
    IF salary_premiums.is_none
    THEN [median |-> prediction_median, p10 |-> prediction_p10,
          p90 |-> prediction_p90, adjustments |-> << >>]
    ELSE
    LET premiums == salary_premiums.value
        role_key == str_lower(role_title)
        role_skill_deltas == DictGet(premiums, "role_skill_deltas", << >>)
        global_skill_deltas == DictGet(premiums, "global_skill_deltas", << >>)
        role_tier_deltas == DictGet(premiums, "role_tier_deltas", << >>)
        global_tier_deltas == DictGet(premiums, "global_tier_deltas", << >>)
        skill_weight == DictGet(premiums, "skill_weight", 1)
        tier_weight == DictGet(premiums, "tier_weight", 1)
        max_ratio == DictGet(premiums, "max_adjustment_ratio", 7)
        max_absolute == DictGet(premiums, "max_absolute_adjustment", Dollars(60000))
        role_skill_map == DictGet(role_skill_deltas, role_key, << >>)
        per_skill_deltas ==
            PerSkillDeltas(selected_skills, role_skill_map, global_skill_deltas)
        skill_delta == MeanOrZero(per_skill_deltas) * skill_weight
        role_tier_map == DictGet(role_tier_deltas, role_key, << >>)
        tier_delta ==
            DictGet(role_tier_map, company_tier,
                    DictGet(global_tier_deltas, company_tier, 0)) * tier_weight
        max_allowed == MaxAllowed(max_absolute, prediction_median, max_ratio)
        total_delta == py_max(FNeg(max_allowed),
                              py_min(max_allowed, skill_delta + tier_delta))
    IN  [median |-> FAdd(prediction_median, total_delta),
         p10 |-> FAdd(prediction_p10, total_delta),
         p90 |-> FAdd(prediction_p90, total_delta),
         adjustments |-> Adjustment("skills", skill_delta)
                         \o Adjustment("company_scale", tier_delta)]

MIN_SALARY == 20000

MAX_SALARY == 500000

\* pred_median = max(20_000, min(500_000, pred_median)), and the two bounds
ClampMedian(pred_median) ==
    py_max(Dollars(MIN_SALARY), py_min(Dollars(MAX_SALARY), pred_median))

ClampP10_floorOnly(pred_median, pred_p10) == py_max(Dollars(MIN_SALARY), pred_p10)

ClampP10(pred_median, pred_p10) ==
    py_max(Dollars(MIN_SALARY), py_min(pred_median, pred_p10))

ClampP90(pred_median, pred_p90) ==
    py_max(pred_median, py_min(Dollars(MAX_SALARY), pred_p90))

Confidence_noFloor(pred_median, pred_p10, pred_p90) ==
    LET salary_range == pred_p90 - pred_p10
        denominator == py_max(pred_median, Dollars(1))
        num == 2 * denominator - salary_range
        den == 2 * denominator
    IN  IF num < den THEN [num |-> num, den |-> den] ELSE [num |-> 1, den |-> 1]

\* confidence = max(0.1, min(1.0, 1.0 - (salary_range / max(pred_median,
\* 1.0)) * 0.5)), as a fraction: 1 - r/(2m) is (2m - r)/(2m).
Confidence(pred_median, pred_p10, pred_p90) ==
    LET salary_range == pred_p90 - pred_p10
        denominator == py_max(pred_median, Dollars(1))
        num == 2 * denominator - salary_range
        den == 2 * denominator
        capped == IF num < den THEN [num |-> num, den |-> den]
                  ELSE [num |-> 1, den |-> 1]
    IN  IF 10 * capped.num > capped.den THEN capped ELSE [num |-> 1, den |-> 10]

\* predict_salary from the answers of the three predictors on: premiums,
\* clamps, confidence and the rounded response.  The factors of the
\* response (feature importances) are left out.
predict_salary(request, pred_median, pred_p10, pred_p90, salary_skill_vocab, company_scale_meta, salary_premiums) ==
    LET scale == _resolve_company_scale_tier(request, company_scale_meta)
        known_skills == _resolve_known_skills(request.skills, salary_skill_vocab)
        adjusted == _apply_premiums(request.title, known_skills, scale.tier,
                                    pred_median, pred_p10, pred_p90,
                                    salary_premiums)
        median == ClampMedian(adjusted.median)
        p10 == ClampP10(median, adjusted.p10)
        p90 == ClampP90(median, adjusted.p90)
        confidence == Confidence(median, p10, p90)
    IN  [kind |-> "salary",
         company_tier |-> scale.tier,
         known_skills |-> known_skills,
         adjusted |-> [median |-> adjusted.median, p10 |-> adjusted.p10,
                       p90 |-> adjusted.p90],
         clamped |-> [median |-> median, p10 |-> p10, p90 |-> p90],
         response |->
            [predicted_salary |-> RoundHalfEven(median, Unit),
             lower_bound |-> RoundHalfEven(p10, Unit),
             upper_bound |-> RoundHalfEven(p90, Unit),
             confidence |-> py_round(confidence.num, confidence.den, 3),
             adjustments |-> adjusted.adjustments]]

\* What the three predictors may answer: NaN, a negative amount, and
\* amounts below, at and above the two ends of the clamp, some of them
\* between two whole dollars.
RawPredictions ==
    { NaN, Dollars(-1), Money(19999, 1), Money(20000, 0), Money(20000, 1),
      Money(20001, 1), Money(300000, 0), Money(500000, 0), Money(500000, 1) }

\* (max_adjustment_ratio in twentieths, max_absolute_adjustment) of the
\* premium tables: the ratio binding, no ratio, the absolute cap binding,
\* and each of the two below zero.
PremiumCaps ==
    { <<7, Dollars(60000)>>, <<0, Dollars(60000)>>, <<20, Dollars(1000)>>,
      <<-7, Dollars(60000)>>, <<7, Dollars(-1000)>> }

PremiumTable(skill_delta, tier_delta, caps) ==
    Some([role_skill_deltas |->
              [r \in {"data scientist"} |-> [k \in {"skill_SQL"} |-> skill_delta]],
          global_skill_deltas |->
              [k \in {"skill_SQL", "skill_PY"} |->
                  IF k = "skill_SQL" THEN Dollars(500) ELSE Dollars(-2000)],
          role_tier_deltas |->
              [r \in {"data scientist"} |-> [t \in {"large"} |-> tier_delta]],
          global_tier_deltas |->
              [t \in {"mid", "large"} |->
                  IF t = "mid" THEN Dollars(3000) ELSE Dollars(-9)],
          skill_weight |-> 2,
          tier_weight |-> 1,
          max_adjustment_ratio |-> caps[1],
          max_absolute_adjustment |-> caps[2]])

\* The premium artifact: absent, a table that leaves every weight and cap
\* to its default, and full tables.
PremiumTables ==
    { NoneDict,
      Some([global_tier_deltas |-> [t \in {"mid"} |-> Dollars(3000)]]) }
    \cup { PremiumTable(sd, td, caps) :
             sd \in {Dollars(4000), Dollars(-400000)},
             td \in {Dollars(0), Dollars(100000)},
             caps \in PremiumCaps }

\* The requests of the salary specification, each with the skill
\* vocabulary and the scale metadata the registry holds.
SalaryCalls ==
    { [request |-> SalaryRequest("Data Scientist", <<"sql", "PY", "rust">>,
                                 Some(800), NoneStr),
       salary_skill_vocab |-> Some([skill_abrs |-> <<"SQL", "py">>]),
       company_scale_meta |-> NoneDict],
      [request |-> SalaryRequest("Nurse", <<"SQL">>, None, NoneStr),
       salary_skill_vocab |-> NoneDict,
       company_scale_meta |-> NoneDict],
      [request |-> SalaryRequest("data scientist", << >>, Some(3),
                                 Some("enterprise")),
       salary_skill_vocab |-> Some([skill_abrs |-> <<"SQL", "py">>]),
       company_scale_meta |-> Some([boundaries |-> <<1, 2, 3, 4>>])] }

SalaryJobs ==
    { [kind |-> "salary",
       request |-> call.request,
       salary_skill_vocab |-> call.salary_skill_vocab,
       company_scale_meta |-> call.company_scale_meta,
       pred_median |-> m, pred_p10 |-> lo, pred_p90 |-> hi,
       salary_premiums |-> premiums] :
      call \in SalaryCalls, m \in RawPredictions, lo \in RawPredictions,
      hi \in RawPredictions, premiums \in PremiumTables }

InitSalary == InitInference(SalaryJobs)

\* One call of predict_salary.
PredictSalary ==
    /\ job.kind = "salary"
    /\ result = NoOutput
    /\ result' = predict_salary(job.request, job.pred_median, job.pred_p10,
                                job.pred_p90, job.salary_skill_vocab,
                                job.company_scale_meta, job.salary_premiums)
    /\ UNCHANGED <<settings, now, buckets, last, sem_value, req, completed, job>>

NextSalary == PredictSalary

SpecSalary == InitSalary /\ [][NextSalary]_vars

(***************************************************************************)
(* Properties of the salary pipeline                                       *)
(***************************************************************************)
SalaryDone == job.kind = "salary" /\ result # NoOutput

\* C15: whatever the three predictors answer and whatever the premium
\* table, the response has 20000 <= lower_bound <= predicted_salary <=
\* upper_bound <= 500000, after the rounding to integers.
C15_BoundsOrdered ==
    SalaryDone
    => /\ 20000 <= result.response.lower_bound
       /\ result.response.lower_bound <= result.response.predicted_salary
       /\ result.response.predicted_salary <= result.response.upper_bound
       /\ result.response.upper_bound <= 500000

\* The predictors answered in the wrong order (P10 above the median above
\* P90), a premium table shifted the three, and the response came out
\* ordered, the median strictly inside the bounds of the clamp.
C15_Witness ==
    /\ SalaryDone
    /\ ~job.salary_premiums.is_none
    /\ FLess(job.pred_median, job.pred_p10)
    /\ FLess(job.pred_p90, job.pred_median)
    /\ result.adjusted.median # job.pred_median
    /\ 20000 < result.response.predicted_salary
    /\ result.response.predicted_salary < 500000

Abs(x) == IF x < 0 THEN 0 - x ELSE x

MaxRatioOf(premiums) == DictGet(premiums, "max_adjustment_ratio", 7)

MaxAbsoluteOf(premiums) == DictGet(premiums, "max_absolute_adjustment", 60000 * Unit)

\* A premium table was applied to a median that is a number.
PremiumsApplied ==
    /\ SalaryDone
    /\ ~job.salary_premiums.is_none
    /\ ~IsNaN(job.pred_median)

\* What was added to the median.
AppliedDelta == result.adjusted.median - job.pred_median

\* The same delta went to the median, P10 and P90, and its magnitude is at
\* most max_absolute and at most max_ratio x |unadjusted median| (the ratio
\* is in twentieths).
DeltaWithinCaps ==
    /\ result.adjusted.p10 = FAdd(job.pred_p10, AppliedDelta)
    /\ result.adjusted.p90 = FAdd(job.pred_p90, AppliedDelta)
    /\ Abs(AppliedDelta) <= MaxAbsoluteOf(job.salary_premiums.value)
    /\ 20 * Abs(AppliedDelta)
          <= MaxRatioOf(job.salary_premiums.value) * Abs(job.pred_median)

\* C16 as stated: for every premium table, any max ratio and max absolute
\* value included, the one delta added to the median, P10 and P90 has
\* magnitude at most min(max_absolute, max_ratio x |unadjusted median|).
C16_DeltaWithinAnyCaps == PremiumsApplied => DeltaWithinCaps

\* C16: for every premium table whose max ratio and max absolute value are
\* not negative, and every base prediction that is a number, the one delta
\* added to the median, P10 and P90 has magnitude at most
\* min(max_absolute, max_ratio x |unadjusted median|).
C16_DeltaWithinNonNegativeCaps ==
    ( /\ PremiumsApplied
      /\ MaxRatioOf(job.salary_premiums.value) >= 0
      /\ MaxAbsoluteOf(job.salary_premiums.value) >= 0 )
    => DeltaWithinCaps

\* A delta was cut down to max_ratio x |median|, below max_absolute.
C16_Witness ==
    /\ PremiumsApplied
    /\ MaxRatioOf(job.salary_premiums.value) > 0
    /\ AppliedDelta < 0
    /\ 20 * Abs(AppliedDelta)
          = MaxRatioOf(job.salary_premiums.value) * Abs(job.pred_median)
    /\ Abs(AppliedDelta) < MaxAbsoluteOf(job.salary_premiums.value)

RECURSIVE GCD(_, _)
GCD(a, b) == IF b = 0 THEN a ELSE GCD(b, a % b)

\* The fractions a/b and c/d (positive) are the same number.
SameFraction(a, b, c, d) ==
    /\ a \div GCD(a, b) = c \div GCD(c, d)
    /\ b \div GCD(a, b) = d \div GCD(c, d)

\* clamp(1 - 0.5 x (P90 - P10) / max(median, 1), 0.1, 1.0) on the clamped
\* median, P10 and P90, as a fraction.
ClampedConfidence ==
    LET m == IF result.clamped.median > Unit THEN result.clamped.median ELSE Unit
        raw == [num |-> 2 * m - (result.clamped.p90 - result.clamped.p10),
                den |-> 2 * m]
    IN  IF 10 * raw.num < raw.den THEN [num |-> 1, den |-> 10]
        ELSE IF raw.num > raw.den THEN [num |-> 1, den |-> 1]
        ELSE raw

\* The confidence of the response, a number of thousandths, is in [0.1, 1].
ConfidenceInRange ==
    /\ 100 <= result.response.confidence
    /\ result.response.confidence <= 1000

\* C19 as stated: the confidence of the response is in [0.1, 1.0] and is
\* clamp(1 - 0.5 x (P90 - P10) / max(median, 1), 0.1, 1.0).
C19_ConfidenceIsClamp ==
    SalaryDone
    => /\ ConfidenceInRange
       /\ SameFraction(result.response.confidence, 1000,
                       ClampedConfidence.num, ClampedConfidence.den)

\* C19: the confidence of the response is in [0.1, 1.0] and is
\* clamp(1 - 0.5 x (P90 - P10) / max(median, 1), 0.1, 1.0), computed on the
\* clamped median, P10 and P90, rounded to three decimals.
C19_ConfidenceIsRoundedClamp ==
    SalaryDone
    => /\ ConfidenceInRange
       /\ result.response.confidence
             = py_round(ClampedConfidence.num, ClampedConfidence.den, 3)

\* A confidence strictly between the two ends of the clamp that the
\* rounding changed.
C19_Witness ==
    /\ SalaryDone
    /\ 100 < result.response.confidence
    /\ result.response.confidence < 1000
    /\ ~SameFraction(result.response.confidence, 1000,
                     ClampedConfidence.num, ClampedConfidence.den)

(***************************************************************************)
(* Skill-gap analyzer (app/models/skill_gap_inference.py)                  *)
(***************************************************************************)

\* needle in hay (Python `in` on strings)
Contains(needle, hay) ==
    \E i \in 0..(Len(hay) - Len(needle)) : SubSeq(hay, i + 1, i + Len(needle)) = needle

\* The characters of s that are in `allowed`.
RECURSIVE KeepChars(_, _)
KeepChars(s, allowed) ==
    IF Len(s) = 0 THEN ""
    ELSE (IF Contains(SubSeq(s, 1, 1), allowed) THEN SubSeq(s, 1, 1) ELSE "")
         \o KeepChars(SubSeq(s, 2, Len(s)), allowed)

IsSeparator(c) == c = " " \/ c = "-"

\* re.sub(r"[\s-]+", "-", s)
RECURSIVE CollapseSeparators(_)
CollapseSeparators(s) ==
    IF Len(s) = 0 THEN ""
    ELSE IF IsSeparator(SubSeq(s, 1, 1))
    THEN IF Len(s) > 1 /\ IsSeparator(SubSeq(s, 2, 2))
         THEN CollapseSeparators(SubSeq(s, 2, Len(s)))
         ELSE "-" \o CollapseSeparators(SubSeq(s, 2, Len(s)))
    ELSE SubSeq(s, 1, 1) \o CollapseSeparators(SubSeq(s, 2, Len(s)))

\* s.strip("-")
RECURSIVE StripHyphens(_)
StripHyphens(s) ==
    IF Len(s) > 0 /\ SubSeq(s, 1, 1) = "-" THEN StripHyphens(SubSeq(s, 2, Len(s)))
    ELSE IF Len(s) > 0 /\ SubSeq(s, Len(s), Len(s)) = "-"
    THEN StripHyphens(SubSeq(s, 1, Len(s) - 1))
    ELSE s

_slugify(name) ==
    StripHyphens(CollapseSeparators(
        KeepChars(Strip(str_lower(name)), AsciiLower \o "0123456789 -")))

\* The first role of the index with the name or the slug of the target,
\* None when there is none.
_find_role(target, role_index) ==
    LET target_lower == Strip(str_lower(target))
        target_slug == _slugify(target)
        hit(i) == \/ str_lower(role_index[i]) = target_lower
                  \/ _slugify(role_index[i]) = target_slug
    IN  IF \E i \in DOMAIN role_index : hit(i)
        THEN Some(role_index[CHOOSE i \in DOMAIN role_index :
                                 hit(i) /\ \A j \in 1..(i - 1) : ~hit(j)])
        ELSE NoneStr

_fuzzy_match(user_skill, tfidf_term) ==
    LET user_lower == Strip(str_lower(user_skill))
        term_lower == Strip(str_lower(tfidf_term))
    IN  \/ user_lower = term_lower
        \/ Contains(user_lower, term_lower)
        \/ Contains(term_lower, user_lower)

\* list.index(x): the first place of x
IndexOf(list, x) ==
    CHOOSE i \in DOMAIN list : list[i] = x /\ \A j \in 1..(i - 1) : list[j] # x

\* x put into a list that is in rising order of key, behind its equals.
RECURSIVE InsertBehind(_, _)
InsertBehind(x, list) ==
    IF list = << >> THEN <<x>>
    ELSE IF x.key < Head(list).key THEN <<x>> \o list
    ELSE <<Head(list)>> \o InsertBehind(x, Tail(list))

\* A stable sort by rising key: equal keys keep their order.
RECURSIVE StableSort(_)
StableSort(list) ==
    IF list = << >> THEN << >>
    ELSE InsertBehind(list[Len(list)], StableSort(SubSeq(list, 1, Len(list) - 1)))

RECURSIVE Reverse(_)
Reverse(list) ==
    IF list = << >> THEN << >> ELSE Reverse(Tail(list)) \o <<Head(list)>>

TOP_TERMS == 30

\* np.argsort(row)[::-1][:30]: the indices by rising score (equal scores in
\* index order, as numpy sorts the short rows of the model), reversed.
TopIndices(row) ==
    LET keyed == [i \in 1..Len(row) |-> [key |-> row[i], index |-> i]]
        falling == Reverse(StableSort(keyed))
        top == SubSeq(falling, 1,
                      IF Len(falling) < TOP_TERMS THEN Len(falling) ELSE TOP_TERMS)
    IN  [i \in DOMAIN top |-> top[i].index]

\* [(feature_names[i], float(row[i])) for i in top_indices if row[i] > 0]
RECURSIVE TopTerms(_, _, _)
TopTerms(top_indices, feature_names, row) ==
    IF top_indices = << >> THEN << >>
    ELSE (IF row[Head(top_indices)] > 0
          THEN <<[term |-> feature_names[Head(top_indices)],
                  score |-> row[Head(top_indices)]]>>
          ELSE << >>)
         \o TopTerms(Tail(top_indices), feature_names, row)

\* any(_fuzzy_match(us, term) for us in current_skills)
IsMatched(term, current_skills) ==
    \E i \in DOMAIN current_skills : _fuzzy_match(current_skills[i], term)

\* The SkillDetail of every top term: importance = round(score / max_score,
\* 3), in thousandths.
Classified(top_terms, current_skills, max_score) ==
    [i \in DOMAIN top_terms |->
        [skill |-> top_terms[i].term,
         importance |-> py_round(top_terms[i].score, max_score, 3),
         status |-> IF IsMatched(top_terms[i].term, current_skills)
                    THEN "matched" ELSE "gap"]]

IsGap(detail) == detail.status = "gap"

GapSkills_all(details) == details

\* gap_skills: the terms appended in the else branch of the loop
GapSkills(details) == SelectSeq(details, IsGap)

\* The bonus loop: a skill of the user is appended when it matches no entry
\* of the list as it stands, the bonus entries appended before it included.
RECURSIVE WithBonus(_, _)
WithBonus(skills_result, current_skills) ==
    IF current_skills = << >> THEN skills_result
    ELSE LET us == Head(current_skills)
             already_listed ==
                 \E i \in DOMAIN skills_result : _fuzzy_match(us, skills_result[i].skill)
         IN  WithBonus(IF already_listed THEN skills_result
                       ELSE Append(skills_result,
                                   [skill |-> us, importance |-> 0, status |-> "bonus"]),
                       Tail(current_skills))

\* [s for s, _ in sorted(gap_skills, key=lambda x: -x[1])]
LearningPriority(gap_skills) ==
    LET keyed == [i \in DOMAIN gap_skills |->
                     [key |-> 0 - gap_skills[i].importance,
                      skill |-> gap_skills[i].skill]]
        ordered == StableSort(keyed)
    IN  [i \in DOMAIN ordered |-> ordered[i].skill]

MatchPercentage_ofGaps(matched_count, total) ==
    py_round((total - matched_count) * 100, total, 1)

\* round((matched_count / len(top_terms)) * 100, 1), in tenths
MatchPercentage(matched_count, total) == py_round(matched_count * 100, total, 1)

ValueError == [kind |-> "raised", error |-> "ValueError"]

\* analyze_skill_gap; the match percentage is in tenths of a percent.
analyze_skill_gap(request, feature_names, tfidf_matrix, role_index) ==
    LET found == _find_role(request.target_role, role_index)
        role_name == IF ~found.is_none THEN found.value
                     ELSE IF role_index # << >> THEN role_index[1] ELSE "Unknown"
    IN  IF ~InList(role_name, role_index) THEN ValueError
        ELSE
        LET role_idx == IndexOf(role_index, role_name)
            row == tfidf_matrix[role_idx]
            top_terms == TopTerms(TopIndices(row), feature_names, row)
        IN  IF top_terms = << >>
            THEN [kind |-> "skill_gap",
                  response |-> [canonical_role |-> role_name,
                                match_percentage |-> 0,
                                skills |-> << >>,
                                learning_priority |-> << >>]]
            ELSE
            LET max_score == top_terms[1].score
                details == Classified(top_terms, request.current_skills, max_score)
                matched_count == Len(details) - Len(SelectSeq(details, IsGap))
            IN  [kind |-> "skill_gap",
                 response |->
                    [canonical_role |-> role_name,
                     match_percentage |->
                         MatchPercentage(matched_count, Len(top_terms)),
                     skills |-> WithBonus(details, request.current_skills),
                     learning_priority |-> LearningPriority(GapSkills(details))]]

\* The vocabulary of the vectorizer and the roles of the index.
FeatureNames == <<"python", "sql", "machine learning">>

RoleIndex == <<"Data Scientist", "Data Analyst">>

\* The TF-IDF scores of a role: every row over 0..MaxScore.
ScoreRows ==
    { <<a, b, c>> : a \in 0..MaxScore, b \in 0..MaxScore, c \in 0..MaxScore }

TargetRoles == {"data-scientist", " Data Analyst", "Plumber"}

\* The skills a user declares: none, matching by case and blanks, by
\* containment either way, not at all, matching one another, and empty.
DeclaredSkills ==
    { << >>, <<"Python">>, <<"SQL ", "go">>, <<"learning", "SQL">>,
      <<"go", "golang", "Excel">>, <<"mysql", "go">>, <<"">> }

SkillGapJobs ==
    { [kind |-> "skill_gap",
       request |-> [current_skills |-> skills, target_role |-> target],
       feature_names |-> FeatureNames,
       tfidf_matrix |-> <<row, <<1, 0, 1>> >>,
       role_index |-> RoleIndex] :
      skills \in DeclaredSkills, target \in TargetRoles, row \in ScoreRows }
    \cup
    { [kind |-> "skill_gap",
       request |-> [current_skills |-> <<"Python">>, target_role |-> "Plumber"],
       feature_names |-> FeatureNames,
       tfidf_matrix |-> << >>,
       role_index |-> << >>] }

InitSkillGap == InitInference(SkillGapJobs)

\* One call of analyze_skill_gap.
AnalyzeSkillGap ==
    /\ job.kind = "skill_gap"
    /\ result = NoOutput
    /\ result' = analyze_skill_gap(job.request, job.feature_names,
                                   job.tfidf_matrix, job.role_index)
    /\ UNCHANGED <<settings, now, buckets, last, sem_value, req, completed, job>>

NextSkillGap == AnalyzeSkillGap

SpecSkillGap == InitSkillGap /\ [][NextSkillGap]_vars

(***************************************************************************)
(* Properties of the skill-gap analyzer                                    *)
(***************************************************************************)
SkillGapDone == job.kind = "skill_gap" /\ result # NoOutput /\ result.kind = "skill_gap"

\* The entries of the skills list with the given status.
WithStatus(status) ==
    { i \in DOMAIN result.response.skills : result.response.skills[i].status = status }

\* The importance the skills list gives a gap term.
GapImportance(term) ==
    LET i == CHOOSE i \in WithStatus("gap") : result.response.skills[i].skill = term
    IN  result.response.skills[i].importance

\* C20: learning_priority holds exactly the terms whose status in the
\* skills list is gap, each once and no matched or bonus entry, in order of
\* non-increasing importance.
C20_LearningPriorityIsGaps ==
    SkillGapDone
    => LET priority == result.response.learning_priority
           skills == result.response.skills
       IN  /\ { priority[i] : i \in DOMAIN priority }
                = { skills[i].skill : i \in WithStatus("gap") }
           /\ Len(priority) = Cardinality(WithStatus("gap"))
           /\ \A i, j \in DOMAIN priority : i # j => priority[i] # priority[j]
           /\ \A i \in DOMAIN priority :
                 \A k \in WithStatus("matched") \cup WithStatus("bonus") :
                     skills[k].skill # priority[i]
           /\ \A i, j \in DOMAIN priority :
                 i < j => GapImportance(priority[i]) >= GapImportance(priority[j])

\* Two gap terms of different importance behind a matched term, and a
\* bonus entry.
C20_Witness ==
    /\ SkillGapDone
    /\ Len(result.response.learning_priority) = 2
    /\ GapImportance(result.response.learning_priority[1])
          > GapImportance(result.response.learning_priority[2])
    /\ WithStatus("matched") # {}
    /\ WithStatus("bonus") # {}

\* The row of scores of the role the response names, and the terms the
\* role has a score above zero for: its top terms.
RowOfRole ==
    job.tfidf_matrix[IndexOf(job.role_index, result.response.canonical_role)]

RoleTerms == { i \in DOMAIN job.feature_names : RowOfRole[i] > 0 }

MatchesNoTerm(user_skill) ==
    \A i \in RoleTerms : ~_fuzzy_match(user_skill, job.feature_names[i])

\* C21: every skill the user declares that fuzzily matches none of the
\* role's top terms is in the response as a bonus entry of importance 0,
\* for every list of declared skills and every row of the role.
C21_UnmatchedAreBonus ==
    SkillGapDone
    => \A i \in DOMAIN job.request.current_skills :
          MatchesNoTerm(job.request.current_skills[i])
          => \E k \in DOMAIN result.response.skills :
                result.response.skills[k]
                   = [skill |-> job.request.current_skills[i],
                      importance |-> 0, status |-> "bonus"]

\* The top terms the skills list gives the status.
TermsWithStatus(status) ==
    { i \in RoleTerms :
        \E k \in WithStatus(status) :
            result.response.skills[k].skill = job.feature_names[i] }

\* Every top term is in the skills list once, as matched or as gap.
EachTermClassifiedOnce ==
    /\ RoleTerms # {} =>
          /\ TermsWithStatus("matched") \cup TermsWithStatus("gap") = RoleTerms
          /\ TermsWithStatus("matched") \cap TermsWithStatus("gap") = {}
          /\ Cardinality(WithStatus("matched")) + Cardinality(WithStatus("gap"))
                = Cardinality(RoleTerms)
    /\ RoleTerms = {} => result.response.skills = << >>

\* The match percentage, a number of tenths, is in [0, 100].
PercentageInRange ==
    /\ 0 <= result.response.match_percentage
    /\ result.response.match_percentage <= 1000

\* C22 as stated: the match percentage is in [0, 100] and is matched_count
\* / number_of_top_terms x 100, every top term being matched or gap and not
\* both, and 0 when the role has no top term.
C22_PercentageIsRatio ==
    SkillGapDone
    => /\ PercentageInRange
       /\ EachTermClassifiedOnce
       /\ IF RoleTerms = {} THEN result.response.match_percentage = 0
          ELSE SameFraction(result.response.match_percentage, 10,
                            Cardinality(WithStatus("matched")) * 100,
                            Cardinality(RoleTerms))

\* C22: the match percentage is in [0, 100] and is matched_count /
\* number_of_top_terms x 100 rounded to one decimal, every top term being
\* matched or gap and not both, and 0 when the role has no top term.
C22_PercentageIsRoundedRatio ==
    SkillGapDone
    => /\ PercentageInRange
       /\ EachTermClassifiedOnce
       /\ IF RoleTerms = {} THEN result.response.match_percentage = 0
          ELSE result.response.match_percentage
                  = py_round(Cardinality(WithStatus("matched")) * 100,
                             Cardinality(RoleTerms), 1)

\* One of three top terms is matched: 33.3 percent.
C22_Witness ==
    /\ SkillGapDone
    /\ Cardinality(RoleTerms) = 3
    /\ Cardinality(WithStatus("matched")) = 1
    /\ Cardinality(WithStatus("gap")) = 2
    /\ result.response.match_percentage = 333

(***************************************************************************)
(* Role adjacency (app/models/clustering_inference.py)                     *)
(*                                                                         *)
(* cosine_similarity is the library's: what it answers for the target row  *)
(* is drawn from SimValues, a similarity being a count of 1/100000, so     *)
(* that the rounding to four decimals is not the identity.  np.argsort     *)
(* promises no order among equal values: every order it may give is one    *)
(* outcome of the call.                                                    *)
(***************************************************************************)

\* The indices i of role_index with _slugify(entry["role"]) == slug
SlugHits(slug, role_index) ==
    { i \in DOMAIN role_index : _slugify(role_index[i].role) = slug }

\* The orders np.argsort may return: the indices by rising value, equal
\* values in any order.
RECURSIVE ArgsortOutcomes(_, _)
ArgsortOutcomes(values, indices) ==
    IF indices = {} THEN { << >> }
    ELSE LET least == { i \in indices : \A j \in indices : values[i] <= values[j] }
         IN  UNION { { <<i>> \o rest : rest \in ArgsortOutcomes(values, indices \ {i}) } :
                     i \in least }

MAX_ADJACENT == 10

RECURSIVE AdjacentIndices_withSelf(_, _, _)
AdjacentIndices_withSelf(sorted_indices, target_idx, adjacent) ==
    IF sorted_indices = << >> THEN adjacent
    ELSE IF Len(adjacent) + 1 >= MAX_ADJACENT THEN Append(adjacent, Head(sorted_indices))
    ELSE AdjacentIndices_withSelf(Tail(sorted_indices), target_idx,
                                  Append(adjacent, Head(sorted_indices)))

\* The loop of lines 71-82: the indices appended, the target skipped, the
\* loop left when ten are in.
RECURSIVE AdjacentIndices(_, _, _)
AdjacentIndices(sorted_indices, target_idx, adjacent) ==
    IF sorted_indices = << >> THEN adjacent
    ELSE IF Head(sorted_indices) = target_idx
    THEN AdjacentIndices(Tail(sorted_indices), target_idx, adjacent)
    ELSE IF Len(adjacent) + 1 >= MAX_ADJACENT THEN Append(adjacent, Head(sorted_indices))
    ELSE AdjacentIndices(Tail(sorted_indices), target_idx,
                         Append(adjacent, Head(sorted_indices)))

\* AdjacentRole(role, round(float(sims[idx]), 4), int(labels[idx])): the
\* similarity in ten-thousandths.
AdjacentRole(idx, role_index, sims, labels) ==
    [role |-> role_index[idx].role,
     similarity |-> py_round(sims[idx], 100000, 4),
     cluster_id |-> labels[idx]]

NotFound == [kind |-> "not_found"]

\* get_adjacent_roles for one of the orders argsort may give; `indices`
\* keeps the place in role_index of every entry of the response.
get_adjacent_roles(slug, labels, role_index, sims, ascending) ==
    IF SlugHits(slug, role_index) = {} THEN NotFound
    ELSE
    LET target_idx == CHOOSE i \in SlugHits(slug, role_index) :
                          \A j \in SlugHits(slug, role_index) : i <= j
        sorted_indices == Reverse(ascending)
        adjacent == AdjacentIndices(sorted_indices, target_idx, << >>)
    IN  [kind |-> "adjacent",
         target_idx |-> target_idx,
         indices |-> adjacent,
         response |->
            [query_role |-> role_index[target_idx].role,
             cluster_id |-> labels[target_idx],
             adjacent_roles |->
                 [k \in DOMAIN adjacent |->
                     AdjacentRole(adjacent[k], role_index, sims, labels)]]]

\* The roles of the cluster artifacts.
ClusterRoleNames ==
    <<"Data Scientist", "Data Analyst", "ML Engineer", "Data Engineer",
      "Product Manager", "UX Designer", "Web Developer", "QA Engineer",
      "DevOps Engineer", "Nurse", "Teacher", "Accountant">>

ClusterRoleIndex(n) ==
    [i \in 1..n |-> [role |-> ClusterRoleNames[i], posting_count |-> 10 * i]]

ClusterLabels(n) == [i \in 1..n |-> i % 3]

SimValues == {-33335, 0, 33335, 33338, 100000}

\* The similarities of an index of twelve roles to the first one: falling,
\* with equal values at the places 3 and 4 and at 11 and 12.
LongSims ==
    [i \in 1..12 |->
        IF i = 1 THEN 100000
        ELSE IF i \in {3, 4} THEN 70000
        ELSE IF i \in {11, 12} THEN 0
        ELSE 100000 - 9000 * i]

AdjacentSlugs == {"data-scientist", "data-analyst", "ml-engineer", "Data Analyst"}

AdjacentJobs ==
    { [kind |-> "adjacent", slug |-> slug, labels |-> ClusterLabels(n),
       role_index |-> ClusterRoleIndex(n), sims |-> sims] :
      slug \in AdjacentSlugs, n \in 1..MaxRoles,
      sims \in UNION { [1..m -> SimValues] : m \in 1..MaxRoles } }
    \cup
    { [kind |-> "adjacent", slug |-> slug, labels |-> ClusterLabels(n),
       role_index |-> ClusterRoleIndex(n), sims |-> SubSeq(LongSims, 1, n)] :
      slug \in {"data-scientist", "data-engineer"}, n \in {11, 12} }

InitAdjacent ==
    InitInference({ j \in AdjacentJobs : Len(j.sims) = Len(j.role_index) })

\* One call of get_adjacent_roles.
GetAdjacentRoles ==
    /\ job.kind = "adjacent"
    /\ result = NoOutput
    /\ \E ascending \in ArgsortOutcomes(job.sims, DOMAIN job.sims) :
          result' = get_adjacent_roles(job.slug, job.labels, job.role_index,
                                       job.sims, ascending)
    /\ UNCHANGED <<settings, now, buckets, last, sem_value, req, completed, job>>

NextAdjacent == GetAdjacentRoles

SpecAdjacent == InitAdjacent /\ [][NextAdjacent]_vars

(***************************************************************************)
(* Properties of the role adjacency                                        *)
(***************************************************************************)
AdjacentDone == job.kind = "adjacent" /\ result # NoOutput /\ result.kind = "adjacent"

Adjacent == result.response.adjacent_roles

\* C23: for every resolved role the result never holds the entry at the
\* role's own index, holds exactly min(10, number of roles - 1) entries, of
\* distinct roles of the index, and lists them by non-increasing
\* similarity.
C23_AdjacentExcludesSelfTopTen ==
    AdjacentDone
    => /\ \A k \in DOMAIN result.indices : result.indices[k] # result.target_idx
       /\ Len(Adjacent) = (IF Len(job.role_index) - 1 < 10
                           THEN Len(job.role_index) - 1 ELSE 10)
       /\ Len(result.indices) = Len(Adjacent)
       /\ \A k \in DOMAIN Adjacent :
             /\ result.indices[k] \in DOMAIN job.role_index
             /\ Adjacent[k].role = job.role_index[result.indices[k]].role
       /\ \A k, l \in DOMAIN Adjacent :
             k < l => /\ result.indices[k] # result.indices[l]
                      /\ Adjacent[k].similarity >= Adjacent[l].similarity
                      /\ job.sims[result.indices[k]] >= job.sims[result.indices[l]]

\* Twelve roles: ten entries are returned, one role besides the target is
\* left out.
C23_Witness ==
    /\ AdjacentDone
    /\ Len(job.role_index) = 12
    /\ result.target_idx = 4
    /\ Len(Adjacent) = 10

\* C24: roles of equal similarity to the target are listed in the order of
\* their indices, the smaller index first.
C24_TiesInIndexOrder ==
    AdjacentDone
    => \A k, l \in DOMAIN Adjacent :
          (k < l /\ Adjacent[k].similarity = Adjacent[l].similarity)
          => result.indices[k] < result.indices[l]

(***************************************************************************)
(* Further properties of the rate limiter                                  *)
(***************************************************************************)

\* The timestamps of a bucket that lie within the window that ends at t.
InWindow(bucket, t) ==
    { i \in 1..Len(bucket) : bucket[i] > t - WindowTicks }

\* The oldest of them (the buckets are in the order of arrival).
OldestInWindow(bucket, t) ==
    bucket[CHOOSE i \in InWindow(bucket, t) : \A j \in InWindow(bucket, t) : i <= j]

C25_GlobalFirst ==
    LimiterCalled =>
        LET c == last'
            G == settings.ml_limit_global_per_hour
            global_bucket == Bucket(buckets, CallGlobalKey(c))
            endpoint_bucket == Bucket(buckets, CallEndpointKey(c))
            inGlobal == InWindowCount(global_bucket, now)
        IN  /\ (inGlobal >= G /\ inGlobal >= 1)
               => /\ ~c.raised
                  /\ ~c.result.allowed
                  /\ c.result.scope = "global"
                  /\ c.result.limit = G
                  /\ c.result.retry_after_seconds =
                        Max(1, CeilSeconds((OldestInWindow(global_bucket, now)
                                            + WindowTicks) - now))
            /\ (~c.raised /\ ~c.result.allowed /\ c.result.scope = "route")
               => inGlobal < G

\* C25: the global scope is checked before the endpoint-class scope.  A call
\* that finds the identity's global bucket at or above the global limit is
\* rejected with scope global, with the global limit and the retry_after of
\* the oldest global timestamp, also when the class bucket is full too;
\* scope route is reported only when the global bucket is below its limit.
C25_GlobalCheckedFirst == [][C25_GlobalFirst]_vars

\* A call was rejected with scope global while the bucket of its endpoint
\* class was full as well.
C25_Witness ==
    /\ last.called /\ ~last.raised /\ ~last.result.allowed
    /\ last.result.scope = "global"
    /\ endpoint_limit_for(settings, last.endpoint_class) >= 1
    /\ Len(Bucket(buckets, CallEndpointKey(last)))
          >= endpoint_limit_for(settings, last.endpoint_class)

\* The last call repeats the call before it, which was rejected, no sooner
\* than the hint of the rejection asked.
Resent ==
    /\ last.called
    /\ last.previous.called /\ ~last.previous.raised /\ ~last.previous.allowed
    /\ last.client_ip = last.previous.client_ip
    /\ last.endpoint_class = last.previous.endpoint_class
    /\ last.at >= last.previous.at
                    + (last.previous.retry_after_seconds * TicksPerSecond)

\* C26 as stated: a request that was rejected at time t with retry_after r
\* and is re-sent at a time >= t + r, the identity having sent nothing in
\* between, is admitted.
C26_RetryAdmitted ==
    Resent => (~last.raised /\ last.result.allowed)

\* C26: a request re-sent at a time >= t + r after a rejection with scope
\* route is admitted; re-sent after a rejection with scope global it is not
\* rejected with scope global again (the endpoint-class check decides).
C26_RetryPassesRejectingScope ==
    Resent =>
        IF last.previous.scope = "route"
        THEN ~last.raised /\ last.result.allowed
        ELSE \/ last.raised
             \/ last.result.allowed
             \/ last.result.scope = "route"

\* A request rejected with scope global was re-sent when the hint had
\* passed and was rejected with scope route.
C26_Witness ==
    /\ Resent
    /\ last.previous.scope = "global"
    /\ ~last.raised /\ ~last.result.allowed
    /\ last.result.scope = "route"

\* The identity strings a header can carry.
IdentityStrings ==
    IdentityIps \cup {"", ":", "global", "10.0.0.1:global:predict"}

DistinctKeys ==
    \A a, b \in IdentityStrings, s, u \in Scopes :
        (BucketKey(a, s) = BucketKey(b, u)) => (a = b /\ s = u)

OwnKeys(client_ip) == { BucketKey(client_ip, scope) : scope \in Scopes }

\* The buckets of one identity.
OwnBuckets(bk, client_ip) ==
    [k \in DOMAIN bk \cap OwnKeys(client_ip) |-> bk[k]]

C27_Independent ==
    LimiterCalled =>
        LET c == last'
            alone == check_and_consume(OwnBuckets(buckets, c.client_ip),
                                       c.client_ip, c.endpoint_class,
                                       endpoint_limit_for(settings, c.endpoint_class),
                                       settings.ml_limit_global_per_hour, now)
        IN  /\ \A other \in IdentityIps \ {c.client_ip} :
                  \A k \in OwnKeys(other) : Bucket(buckets', k) = Bucket(buckets, k)
            /\ c.raised = alone.raised
            /\ c.result = alone.result
            /\ \A k \in OwnKeys(c.client_ip) :
                  Bucket(buckets', k) = Bucket(alone.buckets, k)

\* C27: two distinct (identity, scope) pairs never share a bucket key,
\* whatever the identity strings, and a call of one identity is decided by
\* that identity's buckets alone and changes no bucket of another identity:
\* the decisions an identity receives do not depend on the traffic of the
\* others.
C27_NoSharedBuckets == []DistinctKeys /\ [][C27_Independent]_vars

\* One identity is rejected while the other, whose name is the key of the
\* first one's global bucket, has recorded requests of its own.
C27_Witness ==
    /\ last.called /\ ~last.raised /\ ~last.result.allowed
    /\ last.client_ip = "10.0.0.1"
    /\ Len(Bucket(buckets, BucketKey("10.0.0.1:global", "global"))) >= 1
    /\ Len(Bucket(buckets, BucketKey("10.0.0.1:global", "global")))
          < Len(Bucket(buckets, BucketKey("10.0.0.1", "global")))

Saturated(c) == c.answered /\ LastReason(c) = "concurrency_saturated"

\* The step has appended `now` to both buckets of the request it answered.
AppendedToBoth(c) ==
    \A k \in {BucketKey(c.client_ip, "global"),
              BucketKey(c.client_ip, c.endpoint_class)} :
        /\ Len(Bucket(buckets', k)) = InWindowCount(Bucket(buckets, k), now) + 1
        /\ Bucket(buckets', k)[Len(Bucket(buckets', k))] = now

\* C28 as stated: a heavy request rejected with reason
\* concurrency_saturated has been appended to its identity's global and
\* endpoint-class buckets.
C28_SaturatedWasRecorded ==
    [][ Saturated(completed') => AppendedToBoth(completed') ]_vars

\* C28: with the rate limiter enabled, a heavy request rejected with
\* reason concurrency_saturated has been appended to its identity's global
\* and endpoint-class buckets before the gate was consulted.
C28_SaturatedWasRecordedWhenEnabled ==
    [][ (Saturated(completed') /\ settings.ml_rate_limit_enabled)
            => AppendedToBoth(completed') ]_vars

\* A heavy request was turned away by the gate and stands in both buckets
\* next to the request that holds the permit.
C28_Witness ==
    /\ Saturated(completed)
    /\ settings.ml_rate_limit_enabled
    /\ completed.endpoint_class = "predict"
    /\ Len(Bucket(buckets, BucketKey(completed.client_ip, "global"))) >= 2
    /\ Len(Bucket(buckets, BucketKey(completed.client_ip, "predict"))) >= 2

\* C29: check_and_consume returns a decision for every request, under
\* every configuration of non-negative limits and every bucket state; with
\* a limit of 0 and an empty bucket it rejects with retry_after >= 1.
C29_AlwaysDecides ==
    last.called =>
        /\ ~last.raised
        /\ (\/ settings.ml_limit_global_per_hour = 0
            \/ endpoint_limit_for(settings, last.endpoint_class) = 0)
           => (~last.result.allowed /\ last.result.retry_after_seconds >= 1)

\* How often the instant t stands in a bucket.
Occurrences(bucket, t) == Cardinality({ i \in 1..Len(bucket) : bucket[i] = t })

RECURSIVE SumOver(_, _, _, _)
SumOver(client_ip, scopes, t, acc) ==
    IF scopes = {} THEN acc
    ELSE LET scope == CHOOSE x \in scopes : TRUE
         IN  SumOver(client_ip, scopes \ {scope}, t,
                     acc + Occurrences(Bucket(buckets, BucketKey(client_ip, scope)), t))

\* C30: for every identity, the timestamps of the global bucket that lie
\* within the trailing window are the multiset union of the within-window
\* timestamps of the identity's endpoint-class buckets, and no class
\* bucket holds more unexpired entries than the global bucket.
C30_GlobalIsUnionOfClasses ==
    \A client_ip \in LimiterIps :
        /\ \A t \in TimePoints :
              t > now - WindowTicks
              => Occurrences(Bucket(buckets, BucketKey(client_ip, "global")), t)
                    = SumOver(client_ip, EndpointClasses, t, 0)
        /\ \A scope \in EndpointClasses :
              InWindowCount(Bucket(buckets, BucketKey(client_ip, scope)), now)
                 <= InWindowCount(Bucket(buckets, BucketKey(client_ip, "global")), now)

\* The global bucket holds the requests of two classes of the current
\* window, while a class bucket the call did not touch still holds an
\* expired one.
C30_Witness ==
    /\ last.called /\ last.result.allowed
    /\ now >= WindowTicks
    /\ InWindowCount(Bucket(buckets, BucketKey(last.client_ip, "global")), now) >= 1
    /\ \E scope \in EndpointClasses \ {last.endpoint_class} :
          LET other == Bucket(buckets, BucketKey(last.client_ip, scope))
          IN  other # <<>> /\ Head(other) <= now - WindowTicks

=============================================================================
